---- MODULE Spec2Model ----
(***************************************************************************)
(* A model of kubeseal-auto: the secret document store (parse / dump), the *)
(* ArgoCD annotation merger, the batch re-encryptor with its per-file      *)
(* backup / replace / restore steps, the Kubeseal facade and the command   *)
(* line dispatcher.                                                        *)
(*                                                                         *)
(* Text is a sequence of symbols.  A symbol is one character, except that  *)
(* the fixed substrings "SkipDryRunOnMissingResource=" and "true" are one  *)
(* symbol each; no other symbols used here can spell them.                 *)
(***************************************************************************)
EXTENDS Integers, Sequences, FiniteSets, TLC

\* ------------------------------------------------------------------------
\* Bounds of the model
\* ------------------------------------------------------------------------
MaxLen == 4        \* longest sync-options text drawn as an input (symbols)
MaxFiles == 3      \* number of *.yaml paths in the directory tree
MaxVerLen == 5     \* longest version text drawn freely from the alphabet
MaxSuffix == 2     \* longest free text appended to a v-prefixed 1.2.3
MaxServices == 3   \* most services the label selector returns
MaxNameLen == 4    \* longest freely chosen name
MaxSecrets == 3    \* most secrets in the controller namespace

\* ------------------------------------------------------------------------
\* Text
\* ------------------------------------------------------------------------
Comma == ","
Space == " "
SkipKey == "SkipDryRunOnMissingResource="
Symbols == {Comma, Space, SkipKey, "true", "x"}
Whitespace == {Space}

Texts == UNION {[1..n -> Symbols] : n \in 0..MaxLen}

\* str.strip(): drop leading and trailing whitespace
RECURSIVE Strip(_)
Strip(s) ==
  IF s = <<>> THEN s
  ELSE IF Head(s) \in Whitespace THEN Strip(Tail(s))
  ELSE IF s[Len(s)] \in Whitespace THEN Strip(SubSeq(s, 1, Len(s) - 1))
  ELSE s

\* str.split(sep) for a one-symbol separator: "" gives [""]
RECURSIVE Split(_, _)
Split(s, sep) ==
  IF \A i \in 1..Len(s) : s[i] # sep THEN <<s>>
  ELSE LET i == CHOOSE k \in 1..Len(s) :
                  s[k] = sep /\ \A j \in 1..(k - 1) : s[j] # sep
       IN <<SubSeq(s, 1, i - 1)>> \o Split(SubSeq(s, i + 1, Len(s)), sep)

\* sep.join(parts)
RECURSIVE Join(_, _)
Join(parts, sep) ==
  IF parts = <<>> THEN <<>>
  ELSE IF Len(parts) = 1 THEN parts[1]
  ELSE parts[1] \o <<sep>> \o Join(Tail(parts), sep)

\* str.startswith(prefix)
StartsWith(s, prefix) ==
  Len(s) >= Len(prefix) /\ SubSeq(s, 1, Len(prefix)) = prefix

\* ------------------------------------------------------------------------
\* YAML documents and file contents
\* ------------------------------------------------------------------------
NoVal == "<absent>"
sync_key == "argocd.argoproj.io/sync-options"
skip_option_value == <<SkipKey, "true">>
skip_prefix == <<SkipKey>>

\* A document.  type: null / list / scalar / map.  For a map: kind (NoVal
\* when the key is missing), hasMeta (metadata key present, a mapping),
\* name and ns (metadata.name / metadata.namespace), ann (the annotations
\* key: absent, null or a mapping), hasSync and sync (the sync-options
\* annotation), extra (another annotation is present), gen (0: payload
\* sealed with the old certificate, 1: re-encrypted).
MkDoc(type, kind, hasMeta, name, ns, ann, hasSync, sync, extra, gen) ==
  [type |-> type, kind |-> kind, hasMeta |-> hasMeta, name |-> name,
   ns |-> ns, ann |-> ann, hasSync |-> hasSync, sync |-> sync,
   extra |-> extra, gen |-> gen]

PlainDoc(type) == MkDoc(type, NoVal, FALSE, NoVal, NoVal, "absent", FALSE, <<>>, FALSE, 0)
NullDoc == PlainDoc("null")
ListDoc == PlainDoc("list")
ScalarDoc == PlainDoc("scalar")

\* A file: fmt is "absent" (no such file), "src" (text as written by the
\* user or by kubeseal), "pyyaml" (text as written by yaml.safe_dump),
\* "junk" (not YAML) or "partial" (output cut short by a failed command).
MkFile(fmt, docs) == [fmt |-> fmt, docs |-> docs]
Absent == MkFile("absent", <<>>)
Junk == MkFile("junk", <<>>)
Partial == MkFile("partial", <<>>)
\* a directory whose name ends in .yaml: open() raises IsADirectoryError
Dir == MkFile("dir", <<>>)
EmptyFile == MkFile("src", <<>>)

\* yaml.safe_dump(secret, stream) into a file opened with "w"
safe_dump(doc) == MkFile("pyyaml", <<doc>>)

\* Result of a call: st is "doc" (a mapping returned), "none" (None
\* returned) or "error" (err names the exception).
Ret(st, err, doc) == [st |-> st, err |-> err, doc |-> doc]

SeqFilterNonNull(docs) == SelectSeq(docs, LAMBDA d : d.type # "null")

parse_secret_file_nomapcheck(file) ==
  IF file.fmt = "absent" THEN Ret("error", "SecretParsingError:missing", NullDoc)
  ELSE IF file.fmt = "dir" THEN Ret("error", "IsADirectoryError", NullDoc)
  ELSE IF file.fmt \in {"junk", "partial"} THEN Ret("error", "SecretParsingError:malformed", NullDoc)
  ELSE LET docs == SeqFilterNonNull(file.docs) IN
       IF Len(docs) > 1 THEN Ret("error", "SecretParsingError:multiple", NullDoc)
       ELSE IF docs = <<>> THEN Ret("none", "", NullDoc)
       ELSE Ret("doc", "", docs[1])

parse_secret_file(file) ==
  IF file.fmt = "absent" THEN Ret("error", "SecretParsingError:missing", NullDoc)
  ELSE IF file.fmt = "dir" THEN Ret("error", "IsADirectoryError", NullDoc)
  ELSE IF file.fmt \in {"junk", "partial"} THEN Ret("error", "SecretParsingError:malformed", NullDoc)
  ELSE LET docs == SeqFilterNonNull(file.docs) IN
       IF Len(docs) > 1 THEN Ret("error", "SecretParsingError:multiple", NullDoc)
       ELSE IF docs = <<>> THEN Ret("none", "", NullDoc)
       ELSE IF docs[1].type # "map" THEN Ret("error", "SecretParsingError:notmapping", NullDoc)
       ELSE Ret("doc", "", docs[1])

\* ------------------------------------------------------------------------
\* Annotation merger
\* ------------------------------------------------------------------------
\* [opt.strip() for opt in s.split(",") if opt.strip()]
options_list(s) ==
  LET parts == Split(s, Comma)
      stripped == [i \in 1..Len(parts) |-> Strip(parts[i])]
  IN SelectSeq(stripped, LAMBDA o : o # <<>>)

filtered_options_keep(s) == options_list(s)

\* [opt for opt in options_list if not opt.startswith("SkipDry...=")]
filtered_options(s) ==
  SelectSeq(options_list(s), LAMBDA o : ~StartsWith(o, skip_prefix))

final_options_append(s) == options_list(s) \o <<skip_option_value>>

final_options(s) == <<skip_option_value>> \o filtered_options(s)

\* Result of the merger on a file: st is "ok" (file rewritten), "nochange"
\* (empty file, early return) or "error" (exception, nothing written).
AnnRet(st, err, file) == [st |-> st, err |-> err, file |-> file]

append_argo_annotation_replace(file) ==
  LET p == parse_secret_file(file) IN
  IF p.st = "error" THEN AnnRet("error", p.err, file)
  ELSE IF p.st = "none" THEN AnnRet("nochange", "", file)
  ELSE IF ~p.doc.hasMeta THEN AnnRet("error", "KeyError", file)
  ELSE IF p.doc.ann = "null" THEN AnnRet("error", "AttributeError", file)
  ELSE LET current == IF p.doc.hasSync THEN p.doc.sync ELSE <<>>
           merged == [p.doc EXCEPT !.ann = "map", !.hasSync = TRUE, !.extra = FALSE,
                                   !.sync = Join(final_options(current), Comma)]
       IN AnnRet("ok", "", safe_dump(merged))

append_argo_annotation(file) ==
  LET p == parse_secret_file(file) IN
  IF p.st = "error" THEN AnnRet("error", p.err, file)
  ELSE IF p.st = "none" THEN AnnRet("nochange", "", file)
  ELSE IF ~p.doc.hasMeta THEN AnnRet("error", "KeyError", file)
  ELSE IF p.doc.ann = "null" THEN AnnRet("error", "AttributeError", file)
  ELSE LET current == IF p.doc.hasSync THEN p.doc.sync ELSE <<>>
           merged == [p.doc EXCEPT !.ann = "map", !.hasSync = TRUE,
                                   !.sync = Join(final_options(current), Comma)]
       IN AnnRet("ok", "", safe_dump(merged))

\* ------------------------------------------------------------------------
\* State
\* ------------------------------------------------------------------------
VARIABLES
  fs,        \* the file system: path -> file
  fs0,       \* the file system when the operation started
  pc,        \* position of the running operation
  outcome,   \* "running", or how the operation ended
  seen,      \* file contents left by each completed merger call
  parsed,    \* the last parse_secret_file call: the file read and the result
  ks,        \* the Kubeseal instance (detached_mode, certificate, binary, ...)
  binOk,     \* whether a program named kubeseal is found on PATH
  secrets,   \* the list returned by _find_sealed_secrets
  idx,       \* index in secrets of the file being processed
  runs,      \* the subprocess invocations made so far, in order
  args,      \* the command line options given to cli()
  exitcode,  \* exit code of the process, -1 while it runs
  params,    \* the SecretParams in use
  cont,      \* where control goes when the running creator returns
  typed,     \* the passwords the user has typed at a prompt
  logged,    \* the values handed to ic()
  env,       \* what the machine, the kubeconfig, the cluster and the network answer
  cluster,   \* the Cluster instance (context, host, controller)
  cache,     \* the file names present in Host.bin_location
  archive,   \* the downloaded tarball at local_path: "absent", "partial", "complete"
  gets,      \* the versions whose release archive was requested, in order
  msgs,      \* the console warnings emitted so far, in order
  norm       \* the last call of normalize_version, validate_k8s_name or a lookup: argument and result

vars == <<fs, fs0, pc, outcome, seen, parsed, ks, binOk, secrets, idx, runs,
          args, exitcode, params, cont, typed, logged,
          env, cluster, cache, archive, gets, msgs, norm>>
docVars == <<seen, parsed>>
batchVars == <<secrets, idx>>
cliVars == <<args, exitcode, params, cont, typed, logged>>
hostVars == <<env, cluster, cache, archive, gets, msgs, norm>>

Files == 1..MaxFiles
Suffixes == {"", "_backup", "_new"}
\* Files written in the working directory: the staging temporary file,
\* <context>-kubeseal-cert.crt, <context>-secret-backup.yaml, <name>.yaml
Artifacts == {"tmp", "cert", "backup", "sealed"}
Paths == (Files \X Suffixes) \cup ({0} \X Artifacts)
NoPath == <<0, "">>
P(f) == <<f, "">>
backup_path(f) == <<f, "_backup">>
output_tmp(f) == <<f, "_new">>

Kinds == {"SealedSecret", "Secret", NoVal}

\* ------------------------------------------------------------------------
\* The Kubeseal instance and its command line
\* ------------------------------------------------------------------------
\* One argv element: a word, or a flag with the value formatted into it
\* (f"--cert={certificate}" is Arg("--cert=", certificate)).
Arg(flag, value) == <<flag, value>>
Word(w) == <<w, "">>

Detached(certificate) ==
  [detached_mode |-> TRUE, certificate |-> certificate, binary |-> "kubeseal",
   has_cluster |-> FALSE, current_context_name |-> "", controller_namespace |-> "",
   controller_name |-> ""]

Connected(binary) ==
  [detached_mode |-> FALSE, certificate |-> NoVal, binary |-> binary,
   has_cluster |-> TRUE, current_context_name |-> "ctx",
   controller_namespace |-> "kube-system",
   controller_name |-> "sealed-secrets-controller"]

NoInstance ==
  [detached_mode |-> FALSE, certificate |-> NoVal, binary |-> "kubeseal",
   has_cluster |-> FALSE, current_context_name |-> "", controller_namespace |-> "",
   controller_name |-> ""]

FORMAT_YAML == Word("--format=yaml")

build_kubeseal_cmd_both(k, extra_args) ==
  <<Word(k.binary), FORMAT_YAML, Arg("--cert=", k.certificate),
    Arg("--context=", k.current_context_name),
    Arg("--controller-namespace=", k.controller_namespace),
    Arg("--controller-name=", k.controller_name)>>
  \o extra_args

build_kubeseal_cmd(k, extra_args) ==
  <<Word(k.binary), FORMAT_YAML>>
  \o (IF k.detached_mode
      THEN <<Arg("--cert=", k.certificate)>>
      ELSE <<Arg("--context=", k.current_context_name),
             Arg("--controller-namespace=", k.controller_namespace),
             Arg("--controller-name=", k.controller_name)>>)
  \o extra_args

\* One subprocess.run call: stdin and stdout are the paths of the files
\* passed as stdin= and stdout= (NoPath if none), input the data passed as
\* input= (NoVal if none), rc the exit status.
Run(argv, stdin, input, stdout, rc) ==
  [argv |-> argv, stdin |-> stdin, input |-> input, stdout |-> stdout, rc |-> rc]
\* The strings an argument list is made of
ArgvValues(cmd) == {cmd[i][1] : i \in 1..Len(cmd)} \cup {cmd[i][2] : i \in 1..Len(cmd)}
ENOEXEC == 127   \* the program could not be started (FileNotFoundError)
Unset == [file |-> Absent, ret |-> Ret("unset", "", NullDoc)]

NoArgs ==
  [version |-> FALSE, cert |-> NoVal, fetch |-> FALSE, backup |-> FALSE,
   re_encrypt |-> NoVal, edit |-> NoVal]
NoParams == [name |-> NoVal, namespace |-> NoVal, secret_type |-> NoVal]

\* No command line in play: an operation called on its own
CliIdle ==
  /\ args = NoArgs
  /\ exitcode = -1
  /\ params = NoParams
  /\ cont = "done"
  /\ typed = {}
  /\ logged = {}

NoEnv ==
  [kubeconfig |-> "ok", select |-> FALSE, choice |-> NoVal, api |-> "ok",
   services |-> <<>>, machine |-> "x86_64", system |-> "Linux",
   http |-> 200, tar |-> "ok", secret_items |-> <<>>]
NoCluster == [context |-> NoVal, cpu_type |-> NoVal, system |-> NoVal,
              controller |-> [name |-> NoVal, namespace |-> NoVal, version |-> <<>>]]
NoCall == [arg |-> <<>>, st |-> "unset", val |-> <<>>]

\* No cluster or host in play
HostIdle ==
  /\ env = NoEnv
  /\ cluster = NoCluster
  /\ cache = {}
  /\ archive = "absent"
  /\ gets = <<>>
  /\ msgs = <<>>
  /\ norm = NoCall

\* ------------------------------------------------------------------------
\* Document store and annotation merger on one file
\* ------------------------------------------------------------------------
MapDocs(kinds, texts) ==
  {MkDoc("map", k, FALSE, NoVal, NoVal, "absent", FALSE, <<>>, FALSE, 0) : k \in kinds}
  \cup {MkDoc("map", k, TRUE, "s1", "ns1", a, FALSE, <<>>, FALSE, 0) :
          k \in kinds, a \in {"absent", "null"}}
  \cup {MkDoc("map", k, TRUE, "s1", "ns1", "map", FALSE, <<>>, e, 0) :
          k \in kinds, e \in BOOLEAN}
  \cup {MkDoc("map", k, TRUE, "s1", "ns1", "map", TRUE, t, e, 0) :
          k \in kinds, e \in BOOLEAN, t \in texts}

SmallDocs ==
  {NullDoc, ListDoc, ScalarDoc} \cup MapDocs({"SealedSecret"}, {<<>>})

DocInputs ==
  {Absent, Junk, EmptyFile}
  \cup {MkFile("src", <<d>>) : d \in {NullDoc, ListDoc, ScalarDoc} \cup MapDocs(Kinds, Texts)}
  \cup {MkFile("src", <<d, e>>) : d \in SmallDocs, e \in SmallDocs}

OneFile(file) == [p \in Paths |-> IF p = P(1) THEN file ELSE Absent]

InitDoc ==
  /\ fs \in {OneFile(file) : file \in DocInputs}
  /\ fs0 = fs
  /\ pc = "doc"
  /\ outcome = "running"
  /\ seen = <<>>
  /\ parsed = Unset
  /\ ks = NoInstance
  /\ binOk = TRUE
  /\ secrets = <<>>
  /\ idx = 0
  /\ runs = <<>>
  /\ CliIdle
  /\ HostIdle

\* Kubeseal.parse_existing_secret(file)
ParseExistingSecret ==
  /\ pc = "doc"
  /\ parsed = Unset
  /\ parsed' = [file |-> fs[P(1)], ret |-> parse_secret_file(fs[P(1)])]
  /\ UNCHANGED <<fs, fs0, pc, outcome, seen, ks, binOk, batchVars, runs, cliVars, hostVars>>

\* append_argo_annotation(file), called at most twice in a row
ApplyMerger ==
  /\ pc = "doc"
  /\ outcome = "running"
  /\ Len(seen) < 2
  /\ LET r == append_argo_annotation(fs[P(1)]) IN
       IF r.st = "error"
       THEN /\ outcome' = r.err
            /\ UNCHANGED <<fs, seen>>
       ELSE /\ fs' = [fs EXCEPT ![P(1)] = r.file]
            /\ seen' = Append(seen, r.file)
            /\ UNCHANGED outcome
  /\ UNCHANGED <<fs0, pc, parsed, ks, binOk, batchVars, runs, cliVars, hostVars>>

NextDoc == ParseExistingSecret \/ ApplyMerger

SpecDoc == InitDoc /\ [][NextDoc]_vars

\* ------------------------------------------------------------------------
\* Properties of the annotation merger
\* ------------------------------------------------------------------------
SyncOf(file) == parse_secret_file(file).doc.sync
IsDoc(file) == parse_secret_file(file).st = "doc"

\* C6: the annotation merger is idempotent: once it has run on a document,
\* running it again succeeds and leaves the same sync-options value.
C6_Idempotent ==
  /\ (Len(seen) >= 1 /\ IsDoc(seen[1])) => outcome = "running"
  /\ (Len(seen) = 2 /\ IsDoc(seen[1])) =>
        /\ IsDoc(seen[2])
        /\ parse_secret_file(seen[2]).doc.hasSync
        /\ SyncOf(seen[2]) = SyncOf(seen[1])

C6_Witness ==
  /\ Len(seen) = 2
  /\ IsDoc(fs0[P(1)])
  /\ SyncOf(fs0[P(1)]) = <<"x", Comma, SkipKey, "x">>
  /\ SyncOf(seen[2]) = <<SkipKey, "true", Comma, "x">>

\* The comma-separated pieces of a text, by the positions of its commas
Cuts(s) == {0, Len(s) + 1} \cup {i \in 1..Len(s) : s[i] = Comma}
CutAt(s, k) == CHOOSE c \in Cuts(s) : Cardinality({d \in Cuts(s) : d < c}) = k - 1
Piece(s, k) == SubSeq(s, CutAt(s, k) + 1, CutAt(s, k + 1) - 1)
Trimmed(t) ==
  LET solid == {i \in 1..Len(t) : t[i] # Space} IN
  IF solid = {} THEN <<>>
  ELSE SubSeq(t, CHOOSE i \in solid : \A j \in solid : i <= j,
                 CHOOSE i \in solid : \A j \in solid : i >= j)
KeptOptions(s) ==
  SelectSeq([k \in 1..(Cardinality(Cuts(s)) - 1) |-> Trimmed(Piece(s, k))],
            LAMBDA o : o # <<>> /\ o[1] # SkipKey)
SkipCount(s) ==
  Cardinality({k \in 1..(Cardinality(Cuts(s)) - 1) :
                 Len(Piece(s, k)) >= 1 /\ Piece(s, k)[1] = SkipKey})

\* C7: after the merger has run on a document, metadata.annotations is a
\* mapping and its sync-options value is 'SkipDryRunOnMissingResource=true'
\* followed by the previous value's trimmed, non-empty options that do not
\* start with 'SkipDryRunOnMissingResource=', in order, joined by commas;
\* exactly one SkipDryRunOnMissingResource option is present.
C7_MergedValue ==
  (Len(seen) >= 1 /\ IsDoc(fs0[P(1)])) =>
     LET old == parse_secret_file(fs0[P(1)]).doc
         new == parse_secret_file(seen[1])
         prev == IF old.hasSync THEN old.sync ELSE <<>>
         rest == KeptOptions(prev)
     IN /\ new.st = "doc"
        /\ new.doc.ann = "map"
        /\ new.doc.hasSync
        /\ new.doc.sync = IF rest = <<>> THEN skip_option_value
                          ELSE skip_option_value \o <<Comma>> \o Join(rest, Comma)
        /\ SkipCount(new.doc.sync) = 1

C7_Witness ==
  /\ Len(seen) = 1
  /\ IsDoc(fs0[P(1)])
  /\ parse_secret_file(fs0[P(1)]).doc.hasSync
  /\ SyncOf(fs0[P(1)]) = <<Space, "x", Comma, Comma>>
  /\ SyncOf(seen[1]) = <<SkipKey, "true", Comma, "x">>

C7_WitnessNoAnnotations ==
  /\ Len(seen) = 1
  /\ IsDoc(fs0[P(1)])
  /\ parse_secret_file(fs0[P(1)]).doc.ann = "absent"
  /\ parse_secret_file(seen[1]).doc.ann = "map"

\* ------------------------------------------------------------------------
\* Properties of the document store
\* ------------------------------------------------------------------------
NonNullCount(file) ==
  Cardinality({i \in 1..Len(file.docs) : file.docs[i].type # "null"})

\* C8: parse_secret_file gives SecretParsingError for a missing file, for
\* malformed YAML, for more than one non-null document and for a single
\* non-null document that is not a mapping; it returns None for a file
\* with no non-null document, and the single mapping otherwise.
C8_ParseClassifies ==
  parsed # Unset =>
    LET file == parsed.file
        ret == parsed.ret
        text == file.fmt \in {"src", "pyyaml"}
    IN
    /\ file.fmt = "absent" => ret.st = "error" /\ ret.err = "SecretParsingError:missing"
    /\ file.fmt = "junk" => ret.st = "error" /\ ret.err = "SecretParsingError:malformed"
    /\ (text /\ NonNullCount(file) > 1) =>
          ret.st = "error" /\ ret.err = "SecretParsingError:multiple"
    /\ (text /\ NonNullCount(file) = 0) => ret.st = "none"
    /\ (text /\ NonNullCount(file) = 1) =>
          \E i \in 1..Len(file.docs) :
             /\ file.docs[i].type # "null"
             /\ IF file.docs[i].type = "map"
                THEN ret.st = "doc" /\ ret.doc = file.docs[i]
                ELSE ret.st = "error" /\ ret.err = "SecretParsingError:notmapping"

C8_Witness ==
  /\ parsed.ret.st = "error"
  /\ parsed.ret.err = "SecretParsingError:notmapping"
  /\ parsed.file.docs = <<NullDoc, ListDoc>>

\* ------------------------------------------------------------------------
\* Batch re-encryptor: reencrypt_secrets(src, kubeseal_cmd)
\* ------------------------------------------------------------------------
Exists(file) == file.fmt # "absent"

IsSealedSecret(file) ==
  LET r == parse_secret_file(file) IN r.st = "doc" /\ r.doc.kind = "SealedSecret"

find_sealed_secrets_anykind(fsys) ==
  {f \in Files : Exists(fsys[P(f)]) /\ parse_secret_file(fsys[P(f)]).st = "doc"}

\* The set of paths _find_sealed_secrets collects: every *.yaml path that
\* parses to a mapping whose kind is "SealedSecret".
find_sealed_secrets(fsys) ==
  {f \in Files : Exists(fsys[P(f)]) /\ IsSealedSecret(fsys[P(f)])}

\* except (KeyError, SecretParsingError): continue
CaughtInDiscovery(err) ==
  err \in {"KeyError", "SecretParsingError:missing", "SecretParsingError:malformed",
           "SecretParsingError:multiple", "SecretParsingError:notmapping"}

\* The paths at which parse_secret_file raises an exception the loop of
\* _find_sealed_secrets does not catch
find_uncaught(fsys) ==
  {f \in Files : /\ Exists(fsys[P(f)])
                 /\ parse_secret_file(fsys[P(f)]).st = "error"
                 /\ ~CaughtInDiscovery(parse_secret_file(fsys[P(f)]).err)}

\* rglob yields the paths in file system order: any order of the set
Orders(S) ==
  {o \in [1..Cardinality(S) -> S] : \A i, j \in 1..Cardinality(S) : o[i] = o[j] => i = j}

\* What "kubeseal --re-encrypt" leaves in its stdout file.  Exit 0: one
\* complete SealedSecret manifest sealed with the new certificate; kubeseal
\* always writes a metadata mapping, and keeps the input's annotations or
\* writes none.  Non-zero exit: nothing, or output cut short.
ReencryptOutputs(file) ==
  LET d == parse_secret_file(file).doc
      kept == [d EXCEPT !.gen = 1, !.hasMeta = TRUE,
                        !.ann = IF d.ann = "map" THEN "map" ELSE "absent"]
  IN {MkFile("src", <<kept>>),
      MkFile("src", <<[kept EXCEPT !.ann = "absent", !.hasSync = FALSE,
                                   !.sync = <<>>, !.extra = FALSE]>>)}

CommandResults(file, canRun) ==
  IF ~canRun THEN {[rc |-> ENOEXEC, out |-> EmptyFile]}
  ELSE {[rc |-> 0, out |-> o] : o \in ReencryptOutputs(file)}
       \cup {[rc |-> 1, out |-> o] : o \in {EmptyFile, Partial}}

after_run_pc_unchecked(rc) == "replace"

\* subprocess.run(..., check=True): CalledProcessError on a non-zero exit
after_run_pc(rc) == IF rc = 0 THEN "replace" ELSE "restore"

restore_none(fsys, f) == fsys

\* if backup_path.exists(): backup_path.replace(secret)
restore(fsys, f) ==
  IF Exists(fsys[backup_path(f)])
  THEN [fsys EXCEPT ![P(f)] = fsys[backup_path(f)], ![backup_path(f)] = Absent]
  ELSE fsys

BatchInputs ==
  {Absent, Junk, EmptyFile,
   MkFile("src", <<ListDoc>>),
   MkFile("src", <<MkDoc("map", "SealedSecret", TRUE, "s1", "ns1", "absent", FALSE, <<>>, FALSE, 0),
                   MkDoc("map", "SealedSecret", TRUE, "s2", "ns1", "absent", FALSE, <<>>, FALSE, 0)>>),
   MkFile("src", <<MkDoc("map", "Secret", TRUE, "s1", "ns1", "absent", FALSE, <<>>, FALSE, 0)>>),
   MkFile("src", <<MkDoc("map", NoVal, TRUE, "s1", "ns1", "absent", FALSE, <<>>, FALSE, 0)>>),
   MkFile("src", <<MkDoc("map", "SealedSecret", TRUE, "s1", "ns1", "absent", FALSE, <<>>, FALSE, 0)>>),
   MkFile("src", <<MkDoc("map", "SealedSecret", TRUE, "s1", "ns1", "map", TRUE, <<"x">>, TRUE, 0)>>),
   MkFile("src", <<MkDoc("map", "SealedSecret", FALSE, NoVal, NoVal, "absent", FALSE, <<>>, FALSE, 0)>>)}

Trees ==
  {[p \in Paths |-> IF p[2] = "" THEN t[p[1]] ELSE Absent] : t \in [Files -> BatchInputs]}

InitBatch ==
  /\ fs \in Trees
  /\ fs0 = fs
  /\ pc = "start"
  /\ outcome = "running"
  /\ seen = <<>>
  /\ parsed = Unset
  /\ ks \in {Detached("c.crt"), Connected("/cache/kubeseal-0.26.0")}
  /\ binOk \in (IF ks.detached_mode THEN BOOLEAN ELSE {TRUE})
  /\ secrets = <<>>
  /\ idx = 0
  /\ runs = <<>>
  /\ CliIdle
  /\ HostIdle

cur == secrets[idx]

\* The bare name "kubeseal" is looked up on PATH when the command is run; a
\* resolved path names a program that exists.
CanRunKubeseal == ks.binary # "kubeseal" \/ binOk

\* secrets = _find_sealed_secrets(src); if not secrets: warn and return
FindSealedSecrets ==
  /\ pc = "start"
  /\ IF find_uncaught(fs) # {}
     THEN /\ \E f \in find_uncaught(fs) : outcome' = parse_secret_file(fs[P(f)]).err
          /\ pc' = "done"
          /\ UNCHANGED <<secrets, idx>>
     ELSE \E order \in Orders(find_sealed_secrets(fs)) :
            /\ secrets' = order
            /\ IF order = <<>>
               THEN pc' = "done" /\ outcome' = "ok" /\ idx' = idx
               ELSE pc' = "copy" /\ outcome' = outcome /\ idx' = 1
  /\ UNCHANGED <<fs, fs0, docVars, ks, binOk, runs, cliVars, hostVars>>

\* shutil.copy2(secret, backup_path)
CopyBackup ==
  /\ pc = "copy"
  /\ fs' = [fs EXCEPT ![backup_path(cur)] = fs[P(cur)]]
  /\ pc' = "run"
  /\ UNCHANGED <<fs0, outcome, docVars, ks, binOk, batchVars, runs, cliVars, hostVars>>

\* with secret.open() as stdin_f, output_tmp.open("w") as stdout_f:
\*     subprocess.run(cmd, stdin=stdin_f, stdout=stdout_f, check=True)
RunCommand ==
  /\ pc = "run"
  /\ \E res \in CommandResults(fs[P(cur)], CanRunKubeseal) :
       /\ runs' = Append(runs, Run(build_kubeseal_cmd(ks, <<>>) \o <<Word("--re-encrypt")>>,
                                   P(cur), NoVal, output_tmp(cur), res.rc))
       /\ fs' = [fs EXCEPT ![output_tmp(cur)] = res.out]
       /\ IF res.rc = ENOEXEC
          THEN pc' = "done" /\ outcome' = "FileNotFoundError"
          ELSE pc' = after_run_pc(res.rc) /\ outcome' = outcome
  /\ UNCHANGED <<fs0, docVars, ks, binOk, batchVars, cliVars, hostVars>>

\* output_tmp.replace(secret)
ReplaceOriginal ==
  /\ pc = "replace"
  /\ fs' = [fs EXCEPT ![P(cur)] = fs[output_tmp(cur)], ![output_tmp(cur)] = Absent]
  /\ pc' = "unlink"
  /\ UNCHANGED <<fs0, outcome, docVars, ks, binOk, batchVars, runs, cliVars, hostVars>>

UnlinkBackup_skip ==
  /\ pc = "unlink"
  /\ pc' = "annotate"
  /\ UNCHANGED <<fs, fs0, outcome, docVars, ks, binOk, batchVars, runs, cliVars, hostVars>>

\* backup_path.unlink()
UnlinkBackup ==
  /\ pc = "unlink"
  /\ fs' = [fs EXCEPT ![backup_path(cur)] = Absent]
  /\ pc' = "annotate"
  /\ UNCHANGED <<fs0, outcome, docVars, ks, binOk, batchVars, runs, cliVars, hostVars>>

\* except CalledProcessError: restore the original from the backup
RestoreBackup ==
  /\ pc = "restore"
  /\ fs' = restore(fs, cur)
  /\ pc' = "rmtmp"
  /\ UNCHANGED <<fs0, outcome, docVars, ks, binOk, batchVars, runs, cliVars, hostVars>>

RaiseClickException_continue ==
  /\ pc = "rmtmp"
  /\ fs' = [fs EXCEPT ![output_tmp(cur)] = Absent]
  /\ IF idx = Len(secrets)
     THEN pc' = "done" /\ outcome' = "ClickException" /\ idx' = idx
     ELSE pc' = "copy" /\ outcome' = outcome /\ idx' = idx + 1
  /\ UNCHANGED <<fs0, docVars, ks, binOk, secrets, runs, cliVars, hostVars>>

\* output_tmp.unlink(missing_ok=True); raise click.ClickException(...)
RaiseClickException ==
  /\ pc = "rmtmp"
  /\ fs' = [fs EXCEPT ![output_tmp(cur)] = Absent]
  /\ pc' = "done"
  /\ outcome' = "ClickException"
  /\ UNCHANGED <<fs0, docVars, ks, binOk, batchVars, runs, cliVars, hostVars>>

AnnotateAndAdvance_skip ==
  /\ pc = "annotate"
  /\ fs' = fs
  /\ IF idx = Len(secrets)
     THEN pc' = "done" /\ outcome' = "ok" /\ idx' = idx
     ELSE pc' = "copy" /\ outcome' = outcome /\ idx' = idx + 1
  /\ UNCHANGED <<fs0, docVars, ks, binOk, secrets, runs, cliVars, hostVars>>

\* append_argo_annotation(str(secret)); progress.update(task, advance=1);
\* then the next file, or the end of the loop
AnnotateAndAdvance ==
  /\ pc = "annotate"
  /\ LET r == append_argo_annotation(fs[P(cur)]) IN
       IF r.st = "error"
       THEN /\ pc' = "done" /\ outcome' = r.err
            /\ UNCHANGED <<fs, idx>>
       ELSE /\ fs' = [fs EXCEPT ![P(cur)] = r.file]
            /\ IF idx = Len(secrets)
               THEN pc' = "done" /\ outcome' = "ok" /\ idx' = idx
               ELSE pc' = "copy" /\ outcome' = outcome /\ idx' = idx + 1
  /\ UNCHANGED <<fs0, docVars, ks, binOk, secrets, runs, cliVars, hostVars>>

NextBatch ==
  \/ FindSealedSecrets
  \/ CopyBackup
  \/ RunCommand
  \/ ReplaceOriginal
  \/ UnlinkBackup
  \/ RestoreBackup
  \/ RaiseClickException
  \/ AnnotateAndAdvance

SpecBatch == InitBatch /\ [][NextBatch]_vars

\* ------------------------------------------------------------------------
\* Properties of the batch re-encryptor
\* ------------------------------------------------------------------------
\* A *.yaml file whose single document is a mapping of kind SealedSecret
SealedIn(file) ==
  /\ file.fmt \in {"src", "pyyaml"}
  /\ NonNullCount(file) = 1
  /\ \E i \in 1..Len(file.docs) :
       file.docs[i].type = "map" /\ file.docs[i].kind = "SealedSecret"

\* A complete document sealed with the new certificate
Reencrypted(file) ==
  /\ file.fmt \in {"src", "pyyaml"}
  /\ Len(file.docs) = 1
  /\ file.docs[1].type = "map"
  /\ file.docs[1].kind = "SealedSecret"
  /\ file.docs[1].gen = 1

NoArtifacts(f) == ~Exists(fs[backup_path(f)]) /\ ~Exists(fs[output_tmp(f)])
RunsFor(f) == {k \in 1..Len(runs) : runs[k].stdin = P(f)}
AllRunsSucceeded == \A k \in 1..Len(runs) : runs[k].rc = 0

\* C1: if the re-encrypt command exits non-zero for file F, then when the
\* batch call has ended F holds exactly its content from before the call
\* and neither F_backup nor F_new exists.
C1_FailedFileRestored ==
  pc = "done" =>
    \A k \in 1..Len(runs) :
      runs[k].rc = 1 =>
        LET f == runs[k].stdin[1] IN
        /\ fs[P(f)] = fs0[P(f)]
        /\ NoArtifacts(f)

C1_Witness ==
  /\ pc = "done"
  /\ outcome = "ClickException"
  /\ Len(runs) = 1
  /\ runs[1].rc = 1
  /\ fs[P(runs[1].stdin[1])] = fs0[P(runs[1].stdin[1])]
  /\ NoArtifacts(runs[1].stdin[1])

\* C2: with N SealedSecret files and M other files, a batch in which every
\* command invocation succeeds runs the command exactly once per
\* SealedSecret file (N times) and leaves each other file unchanged; with
\* N = 0 it runs nothing, changes nothing and returns normally.
C2_ExactlyNInvocations ==
  (pc = "done" /\ AllRunsSucceeded) =>
    LET sealed == {f \in Files : SealedIn(fs0[P(f)])} IN
    /\ outcome = "ok"
    /\ Len(runs) = Cardinality(sealed)
    /\ \A f \in sealed : Cardinality(RunsFor(f)) = 1
    /\ \A f \in Files \ sealed : fs[P(f)] = fs0[P(f)] /\ RunsFor(f) = {}
    /\ sealed = {} => runs = <<>> /\ fs = fs0

C2_Witness ==
  /\ pc = "done"
  /\ outcome = "ok"
  /\ Len(runs) = 2
  /\ AllRunsSucceeded
  /\ Cardinality({f \in Files : SealedIn(fs0[P(f)])}) = 2
  /\ \E f \in Files : fs0[P(f)] = MkFile("src", <<ListDoc>>)

C2_WitnessNoop ==
  /\ pc = "done"
  /\ outcome = "ok"
  /\ runs = <<>>
  /\ \E f \in Files : Exists(fs0[P(f)])
  /\ \A f \in Files : ~SealedIn(fs0[P(f)])

\* C3: when the command fails for the k-th file in processing order, no
\* command is run afterwards, the batch goes on only to restore that file
\* and raise ClickException, every later file is untouched and every
\* earlier file keeps its re-encrypted content.
C3_StopsAtFirstFailure ==
  \A k \in 1..Len(runs) :
    runs[k].rc = 1 =>
      /\ k = Len(runs)
      /\ k = idx
      /\ runs[k].stdin = P(secrets[k])
      /\ pc \in {"restore", "rmtmp", "done"}
      /\ pc = "done" => outcome = "ClickException"
      /\ \A j \in (k + 1)..Len(secrets) :
           /\ fs[P(secrets[j])] = fs0[P(secrets[j])]
           /\ NoArtifacts(secrets[j])
           /\ RunsFor(secrets[j]) = {}
      /\ \A j \in 1..(k - 1) :
           /\ runs[j].rc = 0
           /\ Reencrypted(fs[P(secrets[j])])
           /\ fs[P(secrets[j])] # fs0[P(secrets[j])]

C3_Witness ==
  /\ pc = "done"
  /\ outcome = "ClickException"
  /\ Len(secrets) = 3
  /\ Len(runs) = 2
  /\ runs[2].rc = 1
  /\ Reencrypted(fs[P(secrets[1])])
  /\ fs[P(secrets[3])] = fs0[P(secrets[3])]

LastRun == runs'[Len(runs')]

C4_Step ==
  \A f \in Files :
    \* F_new is written only by the command, run on F after the backup
    /\ (fs'[output_tmp(f)] # fs[output_tmp(f)] /\ Exists(fs'[output_tmp(f)])) =>
          /\ Len(runs') = Len(runs) + 1
          /\ LastRun.stdin = P(f) /\ LastRun.stdout = output_tmp(f)
          /\ fs[backup_path(f)] = fs[P(f)]
          /\ fs'[P(f)] = fs[P(f)]
    \* F is overwritten only by F_new, after the command exited with 0,
    \* while the backup still exists
    /\ (fs'[P(f)] # fs[P(f)] /\ pc # "annotate") =>
          /\ runs' = runs /\ runs # <<>>
          /\ LastRun.stdin = P(f) /\ LastRun.rc = 0
          /\ fs'[P(f)] = fs[output_tmp(f)]
          /\ ~Exists(fs'[output_tmp(f)])
          /\ Exists(fs'[backup_path(f)])
    \* after success the backup is deleted only once F_new has replaced F
    /\ (Exists(fs[backup_path(f)]) /\ ~Exists(fs'[backup_path(f)]) /\ pc # "restore") =>
          /\ ~Exists(fs[output_tmp(f)])
          /\ Reencrypted(fs[P(f)])
    \* the step is complete when the merger is about to run
    /\ (pc' = "annotate" /\ f = secrets'[idx']) =>
          /\ ~Exists(fs'[backup_path(f)])
          /\ ~Exists(fs'[output_tmp(f)])
          /\ Reencrypted(fs'[P(f)])

\* C4: a successful re-encrypt of F copies F to F_backup, then runs the
\* command from F into F_new, then replaces F by F_new, then deletes
\* F_backup; F is not overwritten before the command exited with 0, and
\* when the step is complete neither F_backup nor F_new exists.
C4_StepOrder == [][C4_Step]_vars

C4_Witness ==
  /\ pc = "annotate"
  /\ runs # <<>>
  /\ runs[Len(runs)].rc = 0
  /\ Reencrypted(fs[P(cur)])
  /\ fs[P(cur)] # fs0[P(cur)]
  /\ NoArtifacts(cur)

\* C5: when the batch call has ended, every SealedSecret file holds either
\* its complete prior content or a complete re-encrypted document, and the
\* file whose command failed holds its prior content when ClickException is
\* raised.
C5_NoHalfWrittenFile ==
  pc = "done" =>
    /\ \A f \in Files :
         SealedIn(fs0[P(f)]) => (fs[P(f)] = fs0[P(f)] \/ Reencrypted(fs[P(f)]))
    /\ outcome = "ClickException" => fs[P(cur)] = fs0[P(cur)]

C5_Witness ==
  /\ pc = "done"
  /\ outcome = "ClickException"
  /\ Len(runs) = 2
  /\ fs[output_tmp(cur)] = Absent
  /\ runs[2].rc = 1
  /\ fs[P(secrets[2])] = fs0[P(secrets[2])]
  /\ Reencrypted(fs[P(secrets[1])])
  /\ fs[P(secrets[1])].fmt = "pyyaml"

\* ------------------------------------------------------------------------
\* Secret creation with kubectl
\* ------------------------------------------------------------------------
TempPath == <<0, "tmp">>
CertPath == <<0, "cert">>
BackupPath == <<0, "backup">>
SealedPath == <<0, "sealed">>

DRY_RUN_CLIENT == Word("--dry-run=client")

\* The manifest "kubectl create secret ... --dry-run=client -o yaml" prints
SecretManifest(p) ==
  MkFile("src", <<MkDoc("map", "Secret", TRUE, p.name, p.namespace, "absent",
                        FALSE, <<>>, FALSE, 0)>>)

\* What a kubectl call leaves in its stdout file, with its exit status
KubectlResults(manifest) ==
  {[rc |-> 0, out |-> manifest],
   [rc |-> 1, out |-> EmptyFile],
   [rc |-> 1, out |-> Partial],
   [rc |-> ENOEXEC, out |-> EmptyFile]}

\* Answers given at the docker-registry prompts
Servers == {"ghcr.io", "registry.example"}
Usernames == {"alice", "bob"}
Passwords == {"hunter2", "s3cret"}

SecretNames == {"s1", "s2"}
Namespaces == {"ns1", "ns2"}

\* create_regcred_secret(secret_params, output_path) with
\* _run_kubectl_write_output(cmd, output_path, "docker-registry", input_data=...)
CreateRegcredSecret ==
  /\ pc = "regcred"
  /\ \E server \in Servers, username \in Usernames, password \in Passwords,
        res \in KubectlResults(SecretManifest(params)) :
       LET cmd == <<Word("kubectl"), Word("create"), Word("secret"),
                    Word("docker-registry"), Word(params.name),
                    Word("--namespace"), Word(params.namespace),
                    Arg("--docker-server=", server),
                    Arg("--docker-username=", username),
                    Word("--docker-password-stdin"),
                    DRY_RUN_CLIENT, Word("-o"), Word("yaml")>>
       IN /\ typed' = typed \cup {password}
          /\ runs' = Append(runs, Run(cmd, NoPath, password, TempPath, res.rc))
          /\ fs' = [fs EXCEPT ![TempPath] = res.out]
          /\ IF res.rc = 0
             THEN pc' = cont /\ outcome' = outcome
             ELSE pc' = "done" /\ outcome' = "ClickException"
  /\ UNCHANGED <<fs0, docVars, ks, binOk, batchVars, args, exitcode, params, cont, logged, hostVars>>

\* Kubeseal.create_regcred_secret(secret_params) of kubeseal_auto/kubeseal.py
KubesealCreateRegcredSecret ==
  /\ pc = "regcred"
  /\ \E server \in Servers, username \in Usernames, password \in Passwords,
        res \in KubectlResults(SecretManifest(params)) :
       LET cmd == <<Word("kubectl"), Word("create"), Word("secret"),
                    Word("docker-registry"), Word(params.name),
                    Word("--namespace"), Word(params.namespace),
                    Arg("--docker-server=", server),
                    Arg("--docker-username=", username),
                    Arg("--docker-password=", password),
                    DRY_RUN_CLIENT, Word("-o"), Word("yaml")>>
       IN /\ typed' = typed \cup {password}
          /\ runs' = Append(runs, Run(cmd, NoPath, NoVal, TempPath, res.rc))
          /\ fs' = [fs EXCEPT ![TempPath] = res.out]
          /\ IF res.rc = 0
             THEN pc' = cont /\ outcome' = outcome
             ELSE /\ pc' = "done"
                  /\ outcome' = IF res.rc = ENOEXEC THEN "FileNotFoundError"
                                ELSE "CalledProcessError"
  /\ UNCHANGED <<fs0, docVars, ks, binOk, batchVars, args, exitcode, params, cont, logged, hostVars>>

NoTree == [p \in Paths |-> Absent]

\* A Kubeseal instance exists (its staging file was created) and a
\* docker-registry secret is to be generated.
InitRegcred ==
  /\ fs = [NoTree EXCEPT ![TempPath] = EmptyFile]
  /\ fs0 = fs
  /\ pc = "regcred"
  /\ outcome = "running"
  /\ seen = <<>>
  /\ parsed = Unset
  /\ ks \in {Detached("c.crt"), Connected("/cache/kubeseal-0.26.0")}
  /\ binOk = TRUE
  /\ secrets = <<>>
  /\ idx = 0
  /\ runs = <<>>
  /\ args = NoArgs
  /\ exitcode = -1
  /\ params \in {[name |-> n, namespace |-> ns, secret_type |-> "docker-registry"] :
                   n \in SecretNames, ns \in Namespaces}
  /\ cont = "done"
  /\ typed = {}
  /\ logged = {}
  /\ HostIdle

NextRegcred == CreateRegcredSecret \/ KubesealCreateRegcredSecret

SpecRegcred == InitRegcred /\ [][NextRegcred]_vars

IsDockerRegistryRun(r) == Len(r.argv) >= 4 /\ r.argv[4] = Word("docker-registry")

\* C10: when a docker-registry secret is created, the password typed by
\* the user is handed to kubectl as its standard input only: it is no
\* element (or part of an element) of the argument list and is never given
\* to ic().
C10_PasswordOnlyViaStdin ==
  /\ \A k \in 1..Len(runs) :
       IsDockerRegistryRun(runs[k]) =>
         /\ ArgvValues(runs[k].argv) \cap typed = {}
         /\ runs[k].input \in typed
  /\ logged \cap typed = {}

\* ------------------------------------------------------------------------
\* Command line dispatcher
\* ------------------------------------------------------------------------
\* Python truth value of an option: None and "" are false
Truthy(v) == v \notin {NoVal, ""}

\* How Cluster(select_context=...) and the binary resolution end
ConnectResults ==
  {"cached", "fallback", "ClusterConnectionError", "ControllerNotFoundError", "Abort",
   "UnsupportedPlatformError", "ApiException", "HTTPError", "ConnectionError", "ReadError"}

\* if version: click.echo(__version__); return
CliVersion ==
  /\ pc = "cli"
  /\ args.version
  /\ pc' = "exit"
  /\ outcome' = "ok"
  /\ exitcode' = 0
  /\ UNCHANGED <<fs, fs0, docVars, ks, binOk, batchVars, runs, args, params, cont, typed, logged, hostVars>>

\* with Kubeseal(certificate=cert, select_context=select) as kubeseal:
\* Kubeseal.__init__ builds the instance and creates the staging file; an
\* exception leaves cli() (ClusterConnectionError through sys.exit(1)).
NewKubeseal ==
  /\ pc = "cli"
  /\ ~args.version
  /\ \E r \in (IF args.cert # NoVal THEN {"detached"} ELSE ConnectResults) :
       LET failed == r \notin {"detached", "cached", "fallback"}
                     \/ (r = "fallback" /\ ~binOk)
       IN IF failed
          THEN /\ pc' = "exit"
               /\ outcome' = IF r = "fallback" THEN "BinaryNotFoundError" ELSE r
               /\ exitcode' = 1
               /\ UNCHANGED <<fs, ks>>
          ELSE /\ ks' = CASE r = "detached" -> Detached(args.cert)
                          [] r = "cached" -> Connected("/cache/kubeseal-0.26.0")
                          [] OTHER -> Connected("/usr/bin/kubeseal")
               /\ fs' = [fs EXCEPT ![TempPath] = EmptyFile]
               /\ pc' = "dispatch"
               /\ UNCHANGED <<outcome, exitcode>>
  /\ UNCHANGED <<fs0, docVars, binOk, batchVars, runs, args, params, cont, typed, logged, hostVars>>

\* The if-chain of cli(): fetch, backup, re_encrypt, edit, else creation
next_operation(a) ==
  IF a.fetch THEN "fetch"
  ELSE IF a.backup THEN "backup"
  ELSE IF Truthy(a.re_encrypt) THEN "start"
  ELSE IF Truthy(a.edit) THEN "edit"
  ELSE "create"

Dispatch ==
  /\ pc = "dispatch"
  /\ pc' = next_operation(args)
  /\ UNCHANGED <<fs, fs0, outcome, docVars, ks, binOk, batchVars, runs, cliVars, hostVars>>

Pem == MkFile("pem", <<>>)

\* Kubeseal.fetch_certificate() and secrets.sealing.fetch_certificate(...)
FetchCertificate ==
  /\ pc = "fetch"
  /\ pc' = "done"
  /\ IF ~ks.has_cluster
     THEN /\ outcome' = "ClickException"
          /\ UNCHANGED <<fs, runs, logged>>
     ELSE \E rc \in {0, 1} :
            LET cmd == <<Word(ks.binary), Word("--controller-namespace"),
                         Word(ks.controller_namespace),
                         Arg("--context=", ks.current_context_name),
                         Word("--controller-name"), Word(ks.controller_name),
                         Word("--fetch-cert")>>
            IN /\ logged' = logged \cup ArgvValues(cmd)
               /\ runs' = Append(runs, Run(cmd, NoPath, NoVal, CertPath, rc))
               /\ fs' = [fs EXCEPT ![CertPath] = IF rc = 0 THEN Pem ELSE Absent]
               /\ outcome' = IF rc = 0 THEN "ok" ELSE "ClickException"
  /\ UNCHANGED <<fs0, docVars, ks, binOk, batchVars, args, exitcode, params, cont, typed, hostVars>>

\* Kubeseal.backup() and secrets.sealing.backup_controller_secret(...)
Backup ==
  /\ pc = "backup"
  /\ pc' = "done"
  /\ IF ~ks.has_cluster
     THEN /\ outcome' = "ClickException"
          /\ UNCHANGED <<fs, runs, logged>>
     ELSE \/ /\ outcome' = "ControllerNotFoundError"
             /\ UNCHANGED <<fs, runs, logged>>
          \/ \E rc \in {0, 1, ENOEXEC} :
               LET cmd == <<Word("kubectl"), Word("get"), Word("secret"), Word("-n"),
                            Word(ks.controller_namespace), Word("sealed-secrets-key1"),
                            Word("-o"), Word("yaml")>>
                   key == [name |-> "sealed-secrets-key1",
                           namespace |-> ks.controller_namespace]
               IN /\ logged' = logged \cup ArgvValues(cmd)
                  /\ runs' = Append(runs, Run(cmd, NoPath, NoVal, BackupPath, rc))
                  /\ fs' = [fs EXCEPT ![BackupPath] =
                              CASE rc = 0 -> SecretManifest(key)
                                [] rc = 1 -> Absent
                                [] OTHER -> EmptyFile]
                  /\ outcome' = CASE rc = 0 -> "ok"
                                  [] rc = 1 -> "ClickException"
                                  [] OTHER -> "FileNotFoundError"
  /\ UNCHANGED <<fs0, docVars, ks, binOk, batchVars, args, exitcode, params, cont, typed, hostVars>>

\* What the user enters at the prompts of collect_secret_entries()
EntryLists ==
  {<<Arg("--from-literal=", "k=v")>>, <<Arg("--from-file=", "f.txt")>>}

SecretTypes == {"generic", "tls", "docker-registry"}
creator_pc_generic(secret_type) == "generic"

\* match secret_params.secret_type: GENERIC, TLS, DOCKER_REGISTRY
creator_pc(secret_type) ==
  CASE secret_type = "generic" -> "generic"
    [] secret_type = "tls" -> "tls"
    [] OTHER -> "regcred"

\* create_new_secret(kubeseal): collect_parameters(), ic(secret_params),
\* then the creator for the chosen type, then seal
CollectParameters ==
  /\ pc = "create"
  /\ \E n \in SecretNames, ns \in Namespaces, t \in SecretTypes :
       /\ params' = [name |-> n, namespace |-> ns, secret_type |-> t]
       /\ logged' = logged \cup {n, ns, t}
       /\ pc' = creator_pc(t)
  /\ cont' = "seal"
  /\ UNCHANGED <<fs, fs0, outcome, docVars, ks, binOk, batchVars, runs, args, exitcode, typed, hostVars>>

\* edit_secret(kubeseal, file) up to the call of create_generic_secret
EditSecret ==
  /\ pc = "edit"
  /\ LET r == parse_secret_file(fs[P(1)]) IN
       /\ parsed' = [file |-> fs[P(1)], ret |-> r]
       /\ IF r.st # "doc"
          THEN /\ pc' = "done" /\ outcome' = "ClickException"
               /\ UNCHANGED <<params, cont, logged>>
          ELSE IF ~r.doc.hasMeta \/ r.doc.name = NoVal \/ r.doc.ns = NoVal
          THEN /\ pc' = "done" /\ outcome' = "KeyError"
               /\ UNCHANGED <<params, cont, logged>>
          ELSE /\ params' = [name |-> r.doc.name, namespace |-> r.doc.ns,
                             secret_type |-> "generic"]
               /\ logged' = logged \cup {r.doc.name, r.doc.ns, "generic"}
               /\ pc' = "generic"
               /\ cont' = "merge"
               /\ outcome' = outcome
  /\ UNCHANGED <<fs, fs0, seen, ks, binOk, batchVars, runs, args, exitcode, typed, hostVars>>

\* create_generic_secret(secret_params, output_path)
CreateGenericSecret ==
  /\ pc = "generic"
  /\ \E entries \in EntryLists, res \in KubectlResults(SecretManifest(params)) :
       LET cmd == <<Word("kubectl"), Word("create"), Word("secret"), Word("generic"),
                    Word(params.name), Word("--namespace"), Word(params.namespace),
                    DRY_RUN_CLIENT, Word("-o"), Word("yaml")>> \o entries
       IN /\ logged' = logged \cup ArgvValues(cmd)
          /\ runs' = Append(runs, Run(cmd, NoPath, NoVal, TempPath, res.rc))
          /\ fs' = [fs EXCEPT ![TempPath] = res.out]
          /\ IF res.rc = 0
             THEN pc' = cont /\ outcome' = outcome
             ELSE pc' = "done" /\ outcome' = "ClickException"
  /\ UNCHANGED <<fs0, docVars, ks, binOk, batchVars, args, exitcode, params, cont, typed, hostVars>>

\* create_tls_secret(secret_params, output_path); tls.key and tls.crt are
\* looked up in the current directory
CreateTlsSecret ==
  /\ pc = "tls"
  /\ \/ /\ pc' = "done"
        /\ outcome' = "ClickException"
        /\ UNCHANGED <<fs, runs, logged>>
     \/ \E res \in KubectlResults(SecretManifest(params)) :
          LET cmd == <<Word("kubectl"), Word("create"), Word("secret"), Word("tls"),
                       Word(params.name), Word("--namespace"), Word(params.namespace),
                       Word("--key"), Word("tls.key"), Word("--cert"), Word("tls.crt"),
                       DRY_RUN_CLIENT, Word("-o"), Word("yaml")>>
          IN /\ logged' = logged \cup ArgvValues(cmd)
             /\ runs' = Append(runs, Run(cmd, NoPath, NoVal, TempPath, res.rc))
             /\ fs' = [fs EXCEPT ![TempPath] = res.out]
             /\ IF res.rc = 0
                THEN pc' = cont /\ outcome' = outcome
                ELSE pc' = "done" /\ outcome' = "ClickException"
  /\ UNCHANGED <<fs0, docVars, ks, binOk, batchVars, args, exitcode, params, cont, typed, hostVars>>

\* What kubeseal prints for the manifest on its standard input
SealOutputs(file) ==
  LET d == parse_secret_file(file).doc IN
  {MkFile("src", <<[d EXCEPT !.kind = "SealedSecret", !.gen = 1]>>)}

\* What a kubeseal call reading `file` leaves behind, with its exit status
KubesealResults(outputs, canRun) ==
  IF ~canRun THEN {[rc |-> ENOEXEC, out |-> EmptyFile]}
  ELSE {[rc |-> 0, out |-> o] : o \in outputs}
       \cup {[rc |-> 1, out |-> o] : o \in {EmptyFile, Partial}}

\* Kubeseal.seal(secret_params) and secrets.sealing.seal_secret(...)
SealSecret ==
  /\ pc = "seal"
  /\ pc' = "done"
  /\ \E res \in KubesealResults(SealOutputs(fs[TempPath]), CanRunKubeseal) :
       LET cmd == build_kubeseal_cmd(ks, <<>>)
           ann == append_argo_annotation(res.out)
       IN /\ logged' = logged \cup ArgvValues(cmd)
          /\ runs' = Append(runs, Run(cmd, TempPath, NoVal, SealedPath, res.rc))
          /\ CASE res.rc = 0 ->
                    /\ fs' = [fs EXCEPT ![SealedPath] = ann.file]
                    /\ outcome' = IF ann.st = "error" THEN ann.err ELSE "ok"
               [] res.rc = ENOEXEC ->
                    /\ fs' = [fs EXCEPT ![SealedPath] = res.out]
                    /\ outcome' = "FileNotFoundError"
               [] OTHER ->
                    /\ fs' = [fs EXCEPT ![SealedPath] = Absent]
                    /\ outcome' = "ClickException"
  /\ UNCHANGED <<fs0, docVars, ks, binOk, batchVars, args, exitcode, params, cont, typed, hostVars>>

\* Kubeseal.merge(secret_name) and secrets.sealing.merge_secret(...):
\* kubeseal --merge-into rewrites the file itself
MergeSecret ==
  /\ pc = "merge"
  /\ pc' = "done"
  /\ \E res \in KubesealResults(ReencryptOutputs(fs[P(1)]), CanRunKubeseal) :
       LET cmd == build_kubeseal_cmd(ks, <<>>) \o <<Word("--merge-into"), Word(args.edit)>>
           ann == append_argo_annotation(res.out)
       IN /\ logged' = logged \cup ArgvValues(cmd)
          /\ runs' = Append(runs, Run(cmd, TempPath, NoVal, NoPath, res.rc))
          /\ CASE res.rc = 0 ->
                    /\ fs' = [fs EXCEPT ![P(1)] = ann.file]
                    /\ outcome' = IF ann.st = "error" THEN ann.err ELSE "ok"
               [] res.rc = ENOEXEC ->
                    /\ fs' = fs
                    /\ outcome' = "FileNotFoundError"
               [] OTHER ->
                    /\ fs' = fs
                    /\ outcome' = "ClickException"
  /\ UNCHANGED <<fs0, docVars, ks, binOk, batchVars, args, exitcode, params, cont, typed, hostVars>>

CliExit_zero ==
  /\ pc = "done"
  /\ fs' = [fs EXCEPT ![TempPath] = Absent]
  /\ exitcode' = 0
  /\ pc' = "exit"
  /\ UNCHANGED <<fs0, outcome, docVars, ks, binOk, batchVars, runs, args, params, cont, typed, logged, hostVars>>

CliExit_keep ==
  /\ pc = "done"
  /\ fs' = fs
  /\ exitcode' = IF outcome = "ok" THEN 0 ELSE 1
  /\ pc' = "exit"
  /\ UNCHANGED <<fs0, outcome, docVars, ks, binOk, batchVars, runs, args, params, cont, typed, logged, hostVars>>

\* Leaving the with block: __exit__ removes the staging file (unlink with
\* missing_ok=True); cli() ends with status 0, or 1 when an exception left it
CliExit ==
  /\ pc = "done"
  /\ fs' = [fs EXCEPT ![TempPath] = Absent]
  /\ exitcode' = IF outcome = "ok" THEN 0 ELSE 1
  /\ pc' = "exit"
  /\ UNCHANGED <<fs0, outcome, docVars, ks, binOk, batchVars, runs, args, params, cont, typed, logged, hostVars>>

\* The file named by --edit is file 1; --re-encrypt names the whole tree
CliInputs ==
  {Absent, EmptyFile,
   MkFile("src", <<ListDoc>>),
   MkFile("src", <<MkDoc("map", "SealedSecret", TRUE, "s1", "ns1", "absent", FALSE, <<>>, FALSE, 0)>>),
   MkFile("src", <<MkDoc("map", "SealedSecret", TRUE, "s1", NoVal, "map", TRUE, <<"x">>, TRUE, 0)>>)}

OtherInputs ==
  {Absent,
   MkFile("src", <<MkDoc("map", "SealedSecret", TRUE, "s2", "ns1", "absent", FALSE, <<>>, FALSE, 0)>>)}

CliTrees ==
  {[p \in Paths |-> IF p[2] # "" THEN Absent
                    ELSE IF p[1] = 1 THEN first ELSE rest[p[1]]] :
     first \in CliInputs, rest \in [Files -> OtherInputs]}

CommandLines ==
  [version : BOOLEAN, cert : {NoVal, "c.crt"}, fetch : BOOLEAN, backup : BOOLEAN,
   re_encrypt : {NoVal, "dir"}, edit : {NoVal, "f1"}]

InitCli ==
  /\ fs \in CliTrees
  /\ fs0 = fs
  /\ pc = "cli"
  /\ outcome = "running"
  /\ seen = <<>>
  /\ parsed = Unset
  /\ ks = NoInstance
  /\ binOk \in BOOLEAN
  /\ secrets = <<>>
  /\ idx = 0
  /\ runs = <<>>
  /\ args \in CommandLines
  /\ exitcode = -1
  /\ params = NoParams
  /\ cont = "done"
  /\ typed = {}
  /\ logged = {}
  /\ HostIdle

NextCli ==
  \/ CliVersion
  \/ NewKubeseal
  \/ Dispatch
  \/ FetchCertificate
  \/ Backup
  \/ FindSealedSecrets
  \/ CopyBackup
  \/ RunCommand
  \/ ReplaceOriginal
  \/ UnlinkBackup
  \/ RestoreBackup
  \/ RaiseClickException
  \/ AnnotateAndAdvance
  \/ EditSecret
  \/ CollectParameters
  \/ CreateGenericSecret
  \/ CreateTlsSecret
  \/ CreateRegcredSecret
  \/ SealSecret
  \/ MergeSecret
  \/ CliExit

SpecCli == InitCli /\ [][NextCli]_vars

\* The runs of the three operations that need the cluster
IsFetchRun(r) == Word("--fetch-cert") \in {r.argv[i] : i \in 1..Len(r.argv)}
IsBackupRun(r) == r.argv[1] = Word("kubectl") /\ r.argv[2] = Word("get")
IsReencryptRun(r) == Word("--re-encrypt") \in {r.argv[i] : i \in 1..Len(r.argv)}

\* C9: an invocation that combines --cert with --fetch, --backup or
\* --re-encrypt runs no fetch-cert, backup or re-encrypt subprocess and
\* ends with a non-zero exit status.
C9_CertExcludesClusterOperations ==
  (/\ args.cert # NoVal
   /\ ~args.version
   /\ args.fetch \/ args.backup \/ Truthy(args.re_encrypt)) =>
    /\ \A k \in 1..Len(runs) :
         ~(IsFetchRun(runs[k]) \/ IsBackupRun(runs[k]) \/ IsReencryptRun(runs[k]))
    /\ pc = "exit" => exitcode # 0

\* ------------------------------------------------------------------------
\* Version strings (host.py)
\* ------------------------------------------------------------------------
\* A version is a sequence of characters.  Digits stands for \d, WordChars
\* for \w; Newline is the one character "$" lets follow the match.
Digits == {"1", "2", "3"}
WordChars == Digits \cup {"a", "v", "_"}
Newline == "\n"
VersionSymbols == {"v", "1", ".", "-", "+", "a", Newline}

RECURSIVE SkipClass(_, _, _)
\* index of the first character at or after i that is not in class
SkipClass(s, i, class) ==
  IF i <= Len(s) /\ s[i] \in class THEN SkipClass(s, i + 1, class) ELSE i

\* Matching from index i (0: no match so far); the result is the index
\* after the match, 0 if there is none.
MatchPlus(s, i, class) ==
  IF i = 0 THEN 0
  ELSE LET j == SkipClass(s, i, class) IN IF j = i THEN 0 ELSE j
MatchChar(s, i, c) ==
  IF i # 0 /\ i <= Len(s) /\ s[i] = c THEN i + 1 ELSE 0
\* (?:c[class]+)?
MatchOptional(s, i, c, class) ==
  IF i = 0 THEN 0
  ELSE LET j == MatchPlus(s, MatchChar(s, i, c), class) IN IF j = 0 THEN i ELSE j
\* "$" of re.match: the end of the string, or just before a final newline
MatchEnd(s, i) ==
  /\ i # 0
  /\ \/ i = Len(s) + 1
     \/ i = Len(s) /\ s[i] = Newline

\* _SEMVER_PATTERN.match(s): ^\d+\.\d+\.\d+(?:-[\w.]+)?(?:\+[\w.]+)?$
SEMVER_PATTERN_match(s) ==
  LET major == MatchPlus(s, 1, Digits)
      minor == MatchPlus(s, MatchChar(s, major, "."), Digits)
      patch == MatchPlus(s, MatchChar(s, minor, "."), Digits)
      pre   == MatchOptional(s, patch, "-", WordChars \cup {"."})
      build == MatchOptional(s, pre, "+", WordChars \cup {"."})
  IN MatchEnd(s, build)

VRet(st, val) == [st |-> st, val |-> val]

normalize_version(version) ==
  IF version = <<>> THEN VRet("ValueError", <<>>)
  ELSE LET normalized == IF Head(version) = "v" THEN Tail(version) ELSE version IN
       IF normalized = <<>> THEN VRet("ValueError", <<>>)
       ELSE IF ~SEMVER_PATTERN_match(normalized) THEN VRet("ValueError", <<>>)
       ELSE VRet("ok", normalized)

V123 == <<"1", ".", "2", ".", "3">>
FreeTexts(n) == UNION {[1..k -> VersionSymbols] : k \in 0..n}
VersionInputs ==
  FreeTexts(MaxVerLen)
  \cup {pre \o V123 \o suf : pre \in {<<>>, <<"v">>, <<"v", "v">>}, suf \in FreeTexts(MaxSuffix)}

InitVersion ==
  /\ fs = NoTree
  /\ fs0 = fs
  /\ pc = "version"
  /\ outcome = "running"
  /\ seen = <<>>
  /\ parsed = Unset
  /\ ks = NoInstance
  /\ binOk = TRUE
  /\ secrets = <<>>
  /\ idx = 0
  /\ runs = <<>>
  /\ CliIdle
  /\ env = NoEnv
  /\ cluster = NoCluster
  /\ cache = {}
  /\ archive = "absent"
  /\ gets = <<>>
  /\ msgs = <<>>
  /\ norm \in {[arg |-> v, st |-> "unset", val |-> <<>>] : v \in VersionInputs}

\* one call normalize_version(norm.arg)
NormalizeVersion ==
  /\ pc = "version"
  /\ LET r == normalize_version(norm.arg) IN
       /\ norm' = [norm EXCEPT !.st = r.st, !.val = r.val]
       /\ outcome' = IF r.st = "ok" THEN "ok" ELSE r.st
  /\ pc' = "done"
  /\ UNCHANGED <<fs, fs0, docVars, ks, binOk, batchVars, runs, cliVars,
                 env, cluster, cache, archive, gets, msgs>>

NextVersion == NormalizeVersion

SpecVersion == InitVersion /\ [][NextVersion]_vars

\* s[a..b] is non-empty and made of characters of class
Run_of(s, a, b, class) == a <= b /\ \A i \in a..b : s[i] \in class
\* s[m..] is empty or is "+" followed by a build part
BuildFrom(s, m) ==
  \/ m = Len(s) + 1
  \/ m <= Len(s) /\ s[m] = "+" /\ Run_of(s, m + 1, Len(s), WordChars \cup {"."})
\* s is MAJOR.MINOR.PATCH[-pre][+build]
IsSemverForm(s) ==
  \E i, j, k \in 1..(Len(s) + 1) :
    /\ i < j /\ j < k
    /\ Run_of(s, 1, i - 1, Digits) /\ s[i] = "."
    /\ Run_of(s, i + 1, j - 1, Digits) /\ s[j] = "."
    /\ Run_of(s, j + 1, k - 1, Digits)
    /\ \/ BuildFrom(s, k)
       \/ /\ k <= Len(s) /\ s[k] = "-"
          /\ \E m \in (k + 2)..(Len(s) + 1) :
               Run_of(s, k + 1, m - 1, WordChars \cup {"."}) /\ BuildFrom(s, m)
StripOneV(s) == IF s # <<>> /\ s[1] = "v" THEN SubSeq(s, 2, Len(s)) ELSE s

\* C12: normalize_version removes one optional leading "v" and returns the
\* rest exactly when the rest has the form MAJOR.MINOR.PATCH[-pre][+build];
\* every other argument (the empty string, two leading "v", ...) fails with
\* the validation error.
C12_NormalizeVersion ==
  norm.st # "unset" =>
    IF IsSemverForm(StripOneV(norm.arg))
    THEN norm.st = "ok" /\ norm.val = StripOneV(norm.arg)
    ELSE norm.st = "ValueError"

\* ------------------------------------------------------------------------
\* Host: platform detection and the cache of kubeseal binaries (host.py)
\* ------------------------------------------------------------------------
Machines == {"x86_64", "arm64", "aarch64", "i386", "AMD64", "armv7l"}
Systems == {"Linux", "Darwin", "Windows", "linux"}

HRet(st, val) == [st |-> st, val |-> val]

get_cpu_type_asis(machine) ==
  IF machine \in {"x86_64", "arm64", "aarch64"} THEN HRet("ok", machine)
  ELSE HRet("UnsupportedPlatformError", NoVal)

\* match platform.machine()
get_cpu_type(machine) ==
  CASE machine = "x86_64" -> HRet("ok", "amd64")
    [] machine \in {"arm64", "aarch64"} -> HRet("ok", "arm64")
    [] OTHER -> HRet("UnsupportedPlatformError", NoVal)

\* match platform.system()
get_system_type(system) ==
  CASE system = "Linux" -> HRet("ok", "linux")
    [] system = "Darwin" -> HRet("ok", "darwin")
    [] OTHER -> HRet("UnsupportedPlatformError", NoVal)

\* Host(): self.cpu_type = self._get_cpu_type(); self.system = self._get_system_type()
HostInit ==
  /\ pc = "host"
  /\ LET cpu == get_cpu_type(env.machine)
         sys == get_system_type(env.system)
     IN IF cpu.st # "ok" \/ sys.st # "ok"
        THEN /\ pc' = "raised"
             /\ outcome' = "UnsupportedPlatformError"
             /\ cluster' = cluster
        ELSE /\ pc' = cont
             /\ outcome' = outcome
             /\ cluster' = [cluster EXCEPT !.cpu_type = cpu.val, !.system = sys.val]
  /\ UNCHANGED <<fs, fs0, docVars, ks, binOk, batchVars, runs, cliVars,
                 env, cache, archive, gets, msgs, norm>>

get_binary_path_raw(version) ==
  LET n == normalize_version(version) IN
  IF n.st = "ok" THEN VRet("ok", version) ELSE n

\* Host.get_binary_path(version): the file name under bin_location is
\* kubeseal-<normalized>; a cache entry is named by its <normalized> part
get_binary_path(version) == normalize_version(version)

\* Host.ensure_kubeseal_binary(version) up to the call of the download
EnsureKubesealBinary ==
  /\ pc = "ensure"
  /\ LET binary_path == get_binary_path(norm.arg) IN
       /\ norm' = [norm EXCEPT !.st = binary_path.st, !.val = binary_path.val]
       /\ IF binary_path.st # "ok"
          THEN pc' = "raised" /\ outcome' = binary_path.st
          ELSE /\ outcome' = outcome
               /\ pc' = IF binary_path.val \in cache THEN "ensured" ELSE "download"
  /\ UNCHANGED <<fs, fs0, docVars, ks, binOk, batchVars, runs, cliVars,
                 env, cluster, cache, archive, gets, msgs>>

HTTP_NOT_FOUND == 404
NoResponse == 0
HttpStatuses == {200, 403, HTTP_NOT_FOUND, 500, NoResponse}

after_get_raise_for_status(status) ==
  CASE status = NoResponse -> "ConnectionError"
    [] status >= 400 /\ status < 600 -> "HTTPError"
    [] OTHER -> "write"

\* What follows requests.get(url, ...): the 404 test, then raise_for_status()
after_get(status) ==
  CASE status = NoResponse -> "ConnectionError"
    [] status = HTTP_NOT_FOUND -> "BinaryNotFoundError"
    [] status >= 400 /\ status < 600 -> "HTTPError"
    [] OTHER -> "write"

\* Host._download_kubeseal_binary(version) up to the status checks
RequestArchive ==
  /\ pc = "download"
  /\ LET normalized == normalize_version(norm.arg)
         next == after_get(env.http)
     IN /\ gets' = Append(gets, normalized.val)
        /\ IF next = "write"
           THEN pc' = "write" /\ outcome' = outcome
           ELSE pc' = "raised" /\ outcome' = next
  /\ UNCHANGED <<fs, fs0, docVars, ks, binOk, batchVars, runs, cliVars,
                 env, cluster, cache, archive, msgs, norm>>

\* with local_path.open("wb") as f: for chunk in r.iter_content(...): f.write(chunk)
WriteArchive ==
  /\ pc = "write"
  /\ \/ /\ archive' = "complete"
        /\ pc' = "extract"
        /\ outcome' = outcome
     \/ /\ archive' = "partial"
        /\ pc' = "raised"
        /\ outcome' = "ConnectionError"
  /\ UNCHANGED <<fs, fs0, docVars, ks, binOk, batchVars, runs, cliVars,
                 env, cluster, cache, gets, msgs, norm>>

\* tarfile.open(local_path) and _safe_extract_kubeseal(tar, normalized); the
\* finally clause removes the tarball
ExtractArchive ==
  /\ pc = "extract"
  /\ archive' = "absent"
  /\ CASE env.tar = "ok" ->
            /\ cache' = cache \cup {norm.val}
            /\ pc' = "ensured"
            /\ outcome' = outcome
       [] env.tar = "nomember" ->
            /\ cache' = cache
            /\ pc' = "raised"
            /\ outcome' = "ValueError"
       [] OTHER ->
            /\ cache' = cache
            /\ pc' = "raised"
            /\ outcome' = "ReadError"
  /\ UNCHANGED <<fs, fs0, docVars, ks, binOk, batchVars, runs, cliVars,
                 env, cluster, gets, msgs, norm>>

vV123 == <<"v">> \o V123
HostVersions == {V123, vV123, <<"1", ".", "2", ".", "1">>, <<"v", "v">> \o V123, <<>>}
Archives == {"ok", "nomember", "corrupt"}

InitHost ==
  /\ fs = NoTree
  /\ fs0 = fs
  /\ pc = "host"
  /\ outcome = "running"
  /\ seen = <<>>
  /\ parsed = Unset
  /\ ks = NoInstance
  /\ binOk = TRUE
  /\ secrets = <<>>
  /\ idx = 0
  /\ runs = <<>>
  /\ args = NoArgs
  /\ exitcode = -1
  /\ params = NoParams
  /\ cont = "ensure"
  /\ typed = {}
  /\ logged = {}
  /\ env \in {[NoEnv EXCEPT !.machine = m, !.system = s, !.http = h, !.tar = t] :
                m \in Machines, s \in Systems, h \in HttpStatuses, t \in Archives}
  /\ cluster = NoCluster
  /\ cache \in SUBSET {V123, vV123}
  /\ archive = "absent"
  /\ gets = <<>>
  /\ msgs = <<>>
  /\ norm \in {[arg |-> v, st |-> "unset", val |-> <<>>] : v \in HostVersions}

NextHost ==
  \/ HostInit
  \/ EnsureKubesealBinary
  \/ RequestArchive
  \/ WriteArchive
  \/ ExtractArchive

SpecHost == InitHost /\ [][NextHost]_vars

\* C13: ensure_kubeseal_binary(version) requests the release archive if and
\* only if no file exists at the cache path of the normalized version; when
\* the file exists nothing is requested, and a version with the leading "v"
\* uses the same cache path as the one without.
C13_Step ==
  /\ (pc = "ensure" /\ IsSemverForm(StripOneV(norm.arg))) =>
       IF StripOneV(norm.arg) \in cache
       THEN pc' = "ensured" /\ gets' = gets
       ELSE pc' = "download"
  /\ pc = "download" => gets' = Append(gets, StripOneV(norm.arg))
  /\ gets' # gets => pc = "download" /\ StripOneV(norm.arg) \notin cache
C13_DownloadIffMissing == [][C13_Step]_vars

C13_Witness ==
  /\ pc = "ensured"
  /\ norm.arg = vV123
  /\ V123 \in cache
  /\ gets = <<>>

C13_WitnessDownload ==
  /\ pc = "ensured"
  /\ norm.arg = vV123
  /\ gets = <<V123>>
  /\ V123 \in cache

\* C14: when the download answers 404, BinaryNotFoundError is raised and
\* neither the local archive nor the cache is written; any other HTTP error
\* status raises an error that is not BinaryNotFoundError.
C14_Step ==
  /\ env.http = 404 =>
       /\ archive = "absent" /\ archive' = "absent"
       /\ cache' = cache
       /\ pc = "download" => (pc' = "raised" /\ outcome' = "BinaryNotFoundError")
  /\ (pc = "download" /\ env.http \in 400..599 /\ env.http # 404) =>
       /\ pc' = "raised"
       /\ outcome' \notin {"BinaryNotFoundError", "running", "ok"}
C14_NotFoundBeforeWrite == [][C14_Step]_vars

C14_Witness ==
  /\ pc = "raised"
  /\ env.http = 404
  /\ gets # <<>>
  /\ outcome = "BinaryNotFoundError"

C14_WitnessOtherStatus ==
  /\ pc = "raised"
  /\ env.http = 500
  /\ gets # <<>>
  /\ outcome = "HTTPError"

\* C15: a Host is constructed exactly for machine x86_64 (amd64), arm64 or
\* aarch64 (arm64) on Linux (linux) or Darwin (darwin); any other machine
\* or system value ends in UnsupportedPlatformError and no Host.
C15_PlatformDetection ==
  pc # "host" =>
    IF env.machine \in {"x86_64", "arm64", "aarch64"} /\ env.system \in {"Linux", "Darwin"}
    THEN /\ outcome # "UnsupportedPlatformError"
         /\ cluster.cpu_type = (IF env.machine = "x86_64" THEN "amd64" ELSE "arm64")
         /\ cluster.system = (IF env.system = "Linux" THEN "linux" ELSE "darwin")
    ELSE /\ outcome = "UnsupportedPlatformError"
         /\ pc = "raised"
         /\ cluster = NoCluster

C15_Witness ==
  /\ pc # "host"
  /\ env.machine = "aarch64"
  /\ env.system = "Darwin"
  /\ cluster.cpu_type = "arm64"
  /\ cluster.system = "darwin"

C15_WitnessUnsupported ==
  /\ pc = "raised"
  /\ env.machine = "x86_64"
  /\ env.system = "Windows"
  /\ outcome = "UnsupportedPlatformError"

\* ------------------------------------------------------------------------
\* Cluster: context selection and controller discovery (cluster.py)
\* ------------------------------------------------------------------------
\* A service name is a sequence of name parts; "metrics" is one part and no
\* other parts used here can spell it.
Service(name, namespace, version) ==
  [name |-> name, namespace |-> namespace, version |-> version]

ServicePool ==
  {Service(<<"sealed-secrets", "-", "controller">>, "kube-system", vV123),
   Service(<<"sealed-secrets", "-", "metrics">>, "kube-system", vV123),
   Service(<<"sealed-secrets">>, "sealed", <<>>),
   Service(<<"metric", "-", "sealed-secrets">>, "default", V123)}

\* The lists the API can return: no service twice
ServiceLists ==
  UNION {{l \in [1..n -> ServicePool] : \A i, j \in 1..n : l[i] = l[j] => i = j} :
           n \in 0..MaxServices}

\* "metrics" in svc.metadata.name
Contains(name, part) == \E i \in 1..Len(name) : name[i] = part

non_metrics_all(services) == services

\* [svc for svc in found_services if "metrics" not in svc.metadata.name]
non_metrics(services) ==
  SelectSeq(services, LAMBDA svc : ~Contains(svc.name, "metrics"))

select_service_last(found_services) == found_services[Len(found_services)]

\* service = found_services[0]
select_service(found_services) == found_services[1]

Warning(kind, names, namespace) ==
  [level |-> "warning", kind |-> kind, names |-> names, namespace |-> namespace]

\* Cluster._set_context(select_context=...) and config.load_kube_config(context)
SetContext ==
  /\ pc = "connect"
  /\ IF env.kubeconfig = "invalid"
     THEN /\ pc' = "raised"
          /\ outcome' = "ClusterConnectionError"
          /\ UNCHANGED <<cluster, msgs>>
     ELSE IF env.select /\ env.choice = NoVal
     THEN /\ pc' = "raised"
          /\ outcome' = "Abort"
          /\ msgs' = Append(msgs, Warning("cancelled", <<>>, NoVal))
          /\ cluster' = cluster
     ELSE /\ pc' = "host"
          /\ outcome' = outcome
          /\ cluster' = [cluster EXCEPT !.context = IF env.select THEN env.choice ELSE "ctx"]
          /\ msgs' = msgs
  /\ UNCHANGED <<fs, fs0, docVars, ks, binOk, batchVars, runs, cliVars,
                 env, cache, archive, gets, norm>>

\* Cluster._find_sealed_secrets_controller()
FindSealedSecretsController ==
  /\ pc = "discover"
  /\ IF env.api = "unreachable"
     THEN /\ pc' = "raised"
          /\ outcome' = "ClusterConnectionError"
          /\ UNCHANGED <<cluster, msgs>>
     ELSE IF env.api = "unauthorized"
     THEN /\ pc' = "raised"
          /\ outcome' = "ApiException"
          /\ UNCHANGED <<cluster, msgs>>
     ELSE LET found_services == non_metrics(env.services) IN
          IF found_services = <<>>
          THEN /\ pc' = "raised"
               /\ outcome' = "ControllerNotFoundError"
               /\ UNCHANGED <<cluster, msgs>>
          ELSE LET service == select_service(found_services) IN
               /\ cluster' = [cluster EXCEPT !.controller =
                                [name |-> service.name, namespace |-> service.namespace,
                                 version |-> service.version]]
               /\ msgs' = IF Len(found_services) > 1
                          THEN Append(msgs, Warning("multiple", <<service.name>>,
                                                    service.namespace))
                          ELSE msgs
               /\ pc' = "connected"
               /\ outcome' = outcome
  /\ UNCHANGED <<fs, fs0, docVars, ks, binOk, batchVars, runs, cliVars,
                 env, cache, archive, gets, norm>>

InitCluster ==
  /\ fs = NoTree
  /\ fs0 = fs
  /\ pc = "connect"
  /\ outcome = "running"
  /\ seen = <<>>
  /\ parsed = Unset
  /\ ks = NoInstance
  /\ binOk = TRUE
  /\ secrets = <<>>
  /\ idx = 0
  /\ runs = <<>>
  /\ args = NoArgs
  /\ exitcode = -1
  /\ params = NoParams
  /\ cont = "discover"
  /\ typed = {}
  /\ logged = {}
  /\ env \in {[NoEnv EXCEPT !.kubeconfig = k, !.select = sc[1], !.choice = sc[2],
                            !.api = a, !.services = l, !.machine = m, !.system = s] :
                k \in {"ok", "invalid"},
                sc \in {<<FALSE, NoVal>>, <<TRUE, "ctx2">>, <<TRUE, NoVal>>},
                a \in {"ok", "unreachable", "unauthorized"},
                l \in ServiceLists,
                m \in {"x86_64", "i386"}, s \in {"Linux", "Windows"}}
  /\ cluster = NoCluster
  /\ cache = {}
  /\ archive = "absent"
  /\ gets = <<>>
  /\ msgs = <<>>
  /\ norm = NoCall

NextCluster ==
  \/ SetContext
  \/ HostInit
  \/ FindSealedSecretsController

SpecCluster == InitCluster /\ [][NextCluster]_vars

\* The discovery call has been made and has ended
DiscoveryEnded == pc \in {"raised", "connected"} /\ cluster.cpu_type # NoVal
IsMetrics(svc) == \E i \in 1..Len(svc.name) : svc.name[i] = "metrics"
ServiceNames(l) == [i \in 1..Len(l) |-> l[i].name]

\* C16: the controller that discovery selects is one of the labelled
\* services and has no "metrics" in its name; when every labelled service
\* is a metrics service (or there is none) discovery ends in
\* ControllerNotFoundError.
C16_NeverSelectsMetrics ==
  /\ pc = "connected" =>
       \E i \in 1..Len(env.services) :
         /\ ~IsMetrics(env.services[i])
         /\ cluster.controller.name = env.services[i].name
         /\ cluster.controller.namespace = env.services[i].namespace
  /\ (DiscoveryEnded /\ env.api = "ok"
        /\ \A i \in 1..Len(env.services) : IsMetrics(env.services[i])) =>
       (pc = "raised" /\ outcome = "ControllerNotFoundError")

C16_Witness ==
  /\ pc = "connected"
  /\ Len(env.services) >= 2
  /\ IsMetrics(env.services[1])

C16_WitnessNotFound ==
  /\ pc = "raised"
  /\ outcome = "ControllerNotFoundError"
  /\ env.services # <<>>

\* C17 as stated: with more than one non-metrics service the first is
\* selected and a warning names the services that were not selected; with
\* exactly one there is no warning.
C17_WarningNamesTheRest ==
  pc = "connected" =>
    LET remaining == SelectSeq(env.services, LAMBDA svc : ~IsMetrics(svc)) IN
    /\ cluster.controller.name = remaining[1].name
    /\ IF Len(remaining) > 1
       THEN /\ Len(msgs) = 1
            /\ msgs[1].names = ServiceNames(Tail(remaining))
       ELSE msgs = <<>>

\* C17 amended: with more than one non-metrics service the first one in the
\* order returned by the API is selected and one warning is emitted that
\* names the selected service and its namespace; with exactly one there is
\* no warning.
C17_WarningNamesTheSelected ==
  pc = "connected" =>
    LET remaining == SelectSeq(env.services, LAMBDA svc : ~IsMetrics(svc)) IN
    /\ cluster.controller.name = remaining[1].name
    /\ cluster.controller.namespace = remaining[1].namespace
    /\ IF Len(remaining) > 1
       THEN /\ Len(msgs) = 1
            /\ msgs[1].level = "warning"
            /\ msgs[1].names = <<remaining[1].name>>
            /\ msgs[1].namespace = remaining[1].namespace
       ELSE msgs = <<>>

C17_Witness ==
  /\ pc = "connected"
  /\ Len(SelectSeq(env.services, LAMBDA svc : ~IsMetrics(svc))) > 1
  /\ Len(msgs) = 1

\* C18: constructing the cluster connection ends in ClusterConnectionError
\* whenever the kubeconfig is invalid or missing, the credentials are
\* rejected, or the API cannot be reached during controller discovery.
C18_ConnectionErrors ==
  /\ (pc \in {"raised", "connected"} /\ env.kubeconfig = "invalid") =>
       outcome = "ClusterConnectionError"
  /\ (DiscoveryEnded /\ env.api \in {"unreachable", "unauthorized"}) =>
       outcome = "ClusterConnectionError"

\* ------------------------------------------------------------------------
\* Kubeseal.__init__ in connected mode: resolving the kubeseal binary
\* ------------------------------------------------------------------------
\* str(bin_location / f"kubeseal-{normalized}")
BinaryPath(normalized) ==
  CASE normalized = V123 -> "<bin_location>/kubeseal-1.2.3"
    [] normalized = <<"1", ".", "2", ".", "1">> -> "<bin_location>/kubeseal-1.2.1"
    [] OTHER -> "<bin_location>/kubeseal-<normalized>"
SYSTEM_BINARY == "/usr/bin/kubeseal"

ConnectedTo(c, binary) ==
  [Connected(binary) EXCEPT !.current_context_name = c.context,
                            !.controller_namespace = c.controller.namespace,
                            !.controller_name = c.controller.name]

\* version = self.cluster.controller_version; if version: ... else: ...
ControllerVersion ==
  /\ pc = "connected"
  /\ ks' = ConnectedTo(cluster, "kubeseal")
  /\ cont' = "try"
  /\ IF cluster.controller.version = <<>>
     THEN /\ msgs' = Append(msgs, Warning("no-version-label", <<>>, NoVal))
          /\ pc' = "fallback"
          /\ UNCHANGED <<outcome, norm>>
     ELSE LET version == normalize_version(cluster.controller.version) IN
          /\ msgs' = msgs
          /\ IF version.st # "ok"
             THEN /\ pc' = "raised"
                  /\ outcome' = version.st
                  /\ norm' = [arg |-> cluster.controller.version, st |-> version.st,
                              val |-> version.val]
             ELSE /\ pc' = "ensure"
                  /\ outcome' = outcome
                  /\ norm' = [arg |-> version.val, st |-> "unset", val |-> <<>>]
  /\ UNCHANGED <<fs, fs0, docVars, binOk, batchVars, runs, args, exitcode, params,
                 typed, logged, env, cluster, cache, archive, gets>>

\* self.binary = self.cluster.get_kubeseal_binary_path(version)
UseResolvedBinary ==
  /\ pc = "ensured"
  /\ ks' = [ks EXCEPT !.binary = BinaryPath(get_binary_path(norm.arg).val)]
  /\ pc' = "tempfile"
  /\ UNCHANGED <<fs, fs0, outcome, docVars, binOk, batchVars, runs, cliVars, hostVars>>

\* except (BinaryNotFoundError, ValueError) as exc
HandledErrors == {"BinaryNotFoundError", "ValueError"}

\* An exception leaves the try block: the except clause takes it, or it
\* leaves Kubeseal.__init__
HandleResolutionError ==
  /\ pc = "raised"
  /\ IF cont = "try" /\ outcome \in HandledErrors
     THEN /\ msgs' = Append(msgs, Warning("resolution-failed", <<>>, NoVal))
          /\ pc' = "fallback"
          /\ cont' = "handler"
          /\ outcome' = "running"
     ELSE /\ pc' = "failed"
          /\ UNCHANGED <<msgs, cont, outcome>>
  /\ UNCHANGED <<fs, fs0, docVars, ks, binOk, batchVars, runs, args, exitcode, params,
                 typed, logged, env, cluster, cache, archive, gets, norm>>

\* Kubeseal._fallback_to_system_binary()
FallbackToSystemBinary ==
  /\ pc = "fallback"
  /\ IF binOk
     THEN /\ msgs' = Append(msgs, Warning("fallback", <<>>, NoVal))
          /\ ks' = [ks EXCEPT !.binary = SYSTEM_BINARY]
          /\ pc' = "tempfile"
          /\ outcome' = outcome
     ELSE /\ pc' = "raised"
          /\ outcome' = "BinaryNotFoundError"
          /\ UNCHANGED <<msgs, ks>>
  /\ UNCHANGED <<fs, fs0, docVars, binOk, batchVars, runs, cliVars,
                 env, cluster, cache, archive, gets, norm>>

\* temp_file = NamedTemporaryFile(delete=False); temp_file.close()
CreateTempFile ==
  /\ pc = "tempfile"
  /\ fs' = [fs EXCEPT ![TempPath] = EmptyFile]
  /\ pc' = "ready"
  /\ UNCHANGED <<fs0, outcome, docVars, ks, binOk, batchVars, runs, cliVars, hostVars>>

VersionLabels == {<<>>, V123, vV123, <<"v", "v">> \o V123, <<"a">>}

InitKubeseal ==
  /\ fs = NoTree
  /\ fs0 = fs
  /\ pc = "connected"
  /\ outcome = "running"
  /\ seen = <<>>
  /\ parsed = Unset
  /\ ks = NoInstance
  /\ binOk \in BOOLEAN
  /\ secrets = <<>>
  /\ idx = 0
  /\ runs = <<>>
  /\ CliIdle
  /\ env \in {[NoEnv EXCEPT !.http = h, !.tar = t] : h \in HttpStatuses, t \in Archives}
  /\ cluster \in {[context |-> "ctx", cpu_type |-> "amd64", system |-> "linux",
                   controller |-> [name |-> <<"sealed-secrets">>,
                                   namespace |-> "kube-system", version |-> v]] :
                    v \in VersionLabels}
  /\ cache \in SUBSET {V123}
  /\ archive = "absent"
  /\ gets = <<>>
  /\ msgs = <<>>
  /\ norm = NoCall

NextKubeseal ==
  \/ ControllerVersion
  \/ EnsureKubesealBinary
  \/ RequestArchive
  \/ WriteArchive
  \/ ExtractArchive
  \/ UseResolvedBinary
  \/ HandleResolutionError
  \/ FallbackToSystemBinary
  \/ CreateTempFile

SpecKubeseal == InitKubeseal /\ [][NextKubeseal]_vars

\* C11: in connected mode the construction ends with the binary resolved
\* for the controller's version, or, whenever that resolution fails, with
\* the kubeseal found on PATH; it fails only when the resolution failed
\* and PATH has no kubeseal, and then with BinaryNotFoundError.
C11_FallbackOnResolutionFailure ==
  pc \in {"ready", "failed"} =>
    \/ /\ pc = "ready"
       /\ StripOneV(cluster.controller.version) \in cache
       /\ ks.binary = BinaryPath(StripOneV(cluster.controller.version))
    \/ /\ pc = "ready"
       /\ binOk
       /\ ks.binary = SYSTEM_BINARY
    \/ /\ pc = "failed"
       /\ ~binOk
       /\ outcome = "BinaryNotFoundError"

\* ------------------------------------------------------------------------
\* Exit status of cli() and the life of the staging file
\* ------------------------------------------------------------------------
FatalErrors ==
  {"ClusterConnectionError", "ControllerNotFoundError", "BinaryNotFoundError",
   "UnsupportedPlatformError", "SecretParsingError", "ClickException"}

SomeRunFailed == \E k \in 1..Len(runs) : runs[k].rc # 0

\* C19: cli() ends with status 0 exactly when the selected operation
\* completed, and with a non-zero status after any fatal error (a failed
\* construction of Kubeseal, a file that cannot be parsed, a kubectl or
\* kubeseal run with a non-zero status); --version ends with status 0,
\* no Kubeseal instance built and no command run.
C19_ExitCodes ==
  pc = "exit" =>
    /\ exitcode \in {0, 1}
    /\ (exitcode = 0) <=> (outcome = "ok")
    /\ outcome \in FatalErrors => exitcode # 0
    /\ SomeRunFailed => exitcode # 0
    /\ (~args.version /\ ks = NoInstance) => exitcode # 0
    /\ (Truthy(args.edit) /\ ~args.fetch /\ ~args.backup /\ ~Truthy(args.re_encrypt)
        /\ ks # NoInstance /\ parsed.ret.st = "error") => exitcode # 0
    /\ args.version => (exitcode = 0 /\ ks = NoInstance /\ runs = <<>> /\ fs = fs0)

C19_Witness ==
  /\ pc = "exit"
  /\ exitcode = 1
  /\ SomeRunFailed

C19_WitnessVersion ==
  /\ pc = "exit"
  /\ args.version
  /\ exitcode = 0

IsCreateRun(r) == r.argv[1] = Word("kubectl") /\ r.argv[2] = Word("create")
IsSealOrMergeRun(r) ==
  r.argv[1] # Word("kubectl") /\ ~IsFetchRun(r) /\ ~IsReencryptRun(r)

C20_Step ==
  /\ (fs[TempPath] = Absent /\ fs'[TempPath] # Absent) =>
       (pc = "cli" /\ ks = NoInstance /\ ks' # NoInstance)
  /\ (ks = NoInstance /\ ks' # NoInstance) => fs'[TempPath] = EmptyFile
  /\ ks # NoInstance => ks' = ks
  /\ Len(runs') > Len(runs) =>
       LET r == runs'[Len(runs')] IN
         /\ IsCreateRun(r) => r.stdout = TempPath
         /\ IsSealOrMergeRun(r) => r.stdin = TempPath
  /\ pc' = "exit" => fs'[TempPath] = Absent

\* C20: the staging file is created in the one step that builds the
\* Kubeseal instance and in no other; every kubectl creation writes to it
\* and every seal or merge reads from it; once cli() has left the with
\* block, with or without an exception, no file is at its path.
C20_StagingFile == [][C20_Step]_vars

C20_Witness ==
  /\ pc = "exit"
  /\ ks # NoInstance
  /\ outcome # "ok"
  /\ fs[TempPath] = Absent
  /\ \E k \in 1..Len(runs) : IsCreateRun(runs[k]) /\ runs[k].stdout = TempPath

C20_WitnessSealed ==
  /\ pc = "exit"
  /\ outcome = "ok"
  /\ fs[TempPath] = Absent
  /\ \E k \in 1..Len(runs) : IsSealOrMergeRun(runs[k]) /\ runs[k].stdin = TempPath

\* ------------------------------------------------------------------------
\* Output files of failed commands
\* ------------------------------------------------------------------------
\* A command started by kubectl create secret, seal, fetch certificate or
\* the controller key backup, with its stdout in a file, that exited non-zero
WritesOutputAndFailed(r) ==
  /\ r.stdout # NoPath
  /\ ~IsReencryptRun(r)
  /\ r.rc \notin {0, ENOEXEC}

C21_Step ==
  Len(runs') > Len(runs) =>
    LET r == runs'[Len(runs')] IN
      WritesOutputAndFailed(r) =>
        /\ fs'[r.stdout] = Absent
        /\ outcome' = "ClickException"

\* C21: when a kubectl or kubeseal command that writes its output to a
\* file (kubectl create secret, seal, fetch certificate, key backup) exits
\* non-zero, no file is left at its output path when the ClickException
\* reaches the caller.
C21_FailedOutputDeleted == [][C21_Step]_vars

\* ------------------------------------------------------------------------
\* Kubernetes names (secrets/prompts.py)
\* ------------------------------------------------------------------------
DNS_SUBDOMAIN_MAX_LENGTH == 253
\* [a-z0-9], as far as the names below use it
LowerAlnum == {"a", "c", "e", "m", "r", "s", "t", "v", "y", "1"}
NameSymbols == {"a", "1", "A", "_", "-", ".", Newline}

\* Where a match of [a-z0-9]([-a-z0-9]*[a-z0-9])? starting at i can end
\* (the index after it)
LabelEnds(s, i) ==
  IF i > Len(s) \/ s[i] \notin LowerAlnum THEN {}
  ELSE {i + 1} \cup
       {e \in (i + 2)..(Len(s) + 1) :
          /\ s[e - 1] \in LowerAlnum
          /\ \A k \in (i + 1)..(e - 2) : s[k] \in LowerAlnum \cup {"-"}}

RECURSIVE MatchLabels(_, _)
\* label(\.label)*$ from index i
MatchLabels(s, i) ==
  \E e \in LabelEnds(s, i) :
    \/ MatchEnd(s, e)
    \/ e <= Len(s) /\ s[e] = "." /\ MatchLabels(s, e + 1)

\* re.match(_DNS_SUBDOMAIN_PATTERN, name)
DNS_SUBDOMAIN_PATTERN_match(name) == MatchLabels(name, 1)

ERR_EMPTY == "Name cannot be empty"
ERR_TOO_LONG == "Name must be 253 characters or less"
ERR_PATTERN == "Name must consist of lowercase alphanumeric characters, '-' or '.', and must start and end with an alphanumeric character"

validate_k8s_name(name) ==
  IF name = <<>> THEN ERR_EMPTY
  ELSE IF Len(name) > DNS_SUBDOMAIN_MAX_LENGTH THEN ERR_TOO_LONG
  ELSE IF ~DNS_SUBDOMAIN_PATTERN_match(name) THEN ERR_PATTERN
  ELSE "True"

Repeat(c, n) == [i \in 1..n |-> c]
My_Secret == <<"M", "y", "_", "S", "e", "c", "r", "e", "t">>
my_secret_v1 == <<"m", "y", "-", "s", "e", "c", "r", "e", "t", ".", "v", "1">>
LongNames ==
  {Repeat("a", n) \o suf :
     n \in {DNS_SUBDOMAIN_MAX_LENGTH - 1, DNS_SUBDOMAIN_MAX_LENGTH, DNS_SUBDOMAIN_MAX_LENGTH + 1},
     suf \in {<<>>, <<"-">>, <<Newline>>, <<".", "a">>}}
NameInputs ==
  UNION {[1..k -> NameSymbols] : k \in 0..MaxNameLen}
  \cup {My_Secret, my_secret_v1} \cup LongNames

InitName ==
  /\ fs = NoTree
  /\ fs0 = fs
  /\ pc = "name"
  /\ outcome = "running"
  /\ seen = <<>>
  /\ parsed = Unset
  /\ ks = NoInstance
  /\ binOk = TRUE
  /\ secrets = <<>>
  /\ idx = 0
  /\ runs = <<>>
  /\ CliIdle
  /\ env = NoEnv
  /\ cluster = NoCluster
  /\ cache = {}
  /\ archive = "absent"
  /\ gets = <<>>
  /\ msgs = <<>>
  /\ norm \in {[arg |-> n, st |-> "unset", val |-> <<>>] : n \in NameInputs}

\* one call validate_k8s_name(norm.arg)
ValidateK8sName ==
  /\ pc = "name"
  /\ norm' = [norm EXCEPT !.st = validate_k8s_name(norm.arg)]
  /\ pc' = "done"
  /\ outcome' = "ok"
  /\ UNCHANGED <<fs, fs0, docVars, ks, binOk, batchVars, runs, cliVars,
                 env, cluster, cache, archive, gets, msgs>>

NextName == ValidateK8sName

SpecName == InitName /\ [][NextName]_vars

\* s is a non-empty string of at most 253 characters, made of lowercase
\* alphanumerics, "-" and ".", whose dot-separated labels each start and
\* end with an alphanumeric
IsDnsSubdomain(s) ==
  /\ Len(s) \in 1..DNS_SUBDOMAIN_MAX_LENGTH
  /\ \A i \in 1..Len(s) : s[i] \in LowerAlnum \cup {"-", "."}
  /\ s[1] \in LowerAlnum
  /\ s[Len(s)] \in LowerAlnum
  /\ \A i \in 1..Len(s) :
       s[i] = "." => (i > 1 /\ i < Len(s) /\ s[i - 1] \in LowerAlnum /\ s[i + 1] \in LowerAlnum)

\* C22: validate_k8s_name returns True exactly for the DNS subdomain names
\* (non-empty, at most 253 characters, lowercase alphanumerics, "-" and ".",
\* every label starting and ending with an alphanumeric) and an error
\* message for every other string; My_Secret is rejected, my-secret.v1
\* accepted.
C22_ValidateK8sName ==
  pc = "done" =>
    /\ norm.st \in {"True", ERR_EMPTY, ERR_TOO_LONG, ERR_PATTERN}
    /\ (norm.st = "True") <=> IsDnsSubdomain(norm.arg)
    /\ norm.arg = My_Secret => norm.st # "True"
    /\ norm.arg = my_secret_v1 => norm.st = "True"

\* ------------------------------------------------------------------------
\* Discovery of SealedSecret files
\* ------------------------------------------------------------------------
\* Whatever rglob("*.yaml") can yield: the files of BatchInputs, and a
\* directory
DiscoveryInputs == BatchInputs \cup {Dir}

DiscoveryTrees ==
  {[p \in Paths |-> IF p[2] = "" THEN t[p[1]] ELSE Absent] : t \in [Files -> DiscoveryInputs]}

InitDiscovery ==
  /\ fs \in DiscoveryTrees
  /\ fs0 = fs
  /\ pc = "start"
  /\ outcome = "running"
  /\ seen = <<>>
  /\ parsed = Unset
  /\ ks \in {Detached("c.crt"), Connected("/cache/kubeseal-0.26.0")}
  /\ binOk \in (IF ks.detached_mode THEN BOOLEAN ELSE {TRUE})
  /\ secrets = <<>>
  /\ idx = 0
  /\ runs = <<>>
  /\ CliIdle
  /\ HostIdle

SpecDiscovery == InitDiscovery /\ [][NextBatch]_vars

\* The file holds exactly one document, a mapping of kind SealedSecret
HoldsOneSealedSecret(file) ==
  /\ file.fmt \in {"src", "pyyaml"}
  /\ Len(SeqFilterNonNull(file.docs)) = 1
  /\ SeqFilterNonNull(file.docs)[1].type = "map"
  /\ SeqFilterNonNull(file.docs)[1].kind = "SealedSecret"

C23_Step ==
  pc = "start" =>
    /\ outcome' \in {"running", "ok"}
    /\ \A f \in Files :
         (\E i \in 1..Len(secrets') : secrets'[i] = f)
           <=> (Exists(fs[P(f)]) /\ HoldsOneSealedSecret(fs[P(f)]))
    /\ fs' = fs

\* C23: discovery raises no error and returns exactly the *.yaml paths
\* that parse to one mapping document of kind SealedSecret; every other
\* path (unparsable, several documents, not a mapping, no kind, another
\* kind) is skipped.
C23_DiscoverySkipsSilently == [][C23_Step]_vars

\* ------------------------------------------------------------------------
\* The base of every kubeseal command
\* ------------------------------------------------------------------------
\* The runs whose command comes from _build_kubeseal_cmd: seal, merge and
\* re-encrypt
IsBuiltRun(r) == IsReencryptRun(r) \/ IsSealOrMergeRun(r)
ClusterFlags == {"--context=", "--controller-namespace=", "--controller-name=",
                 "--context", "--controller-namespace", "--controller-name"}
CertFlags == {"--cert=", "--cert"}
VerbWords == {"--re-encrypt", "--merge-into"}
Flags(cmd) == {cmd[i][1] : i \in 1..Len(cmd)}

\* C24: a command built by _build_kubeseal_cmd starts with the binary and
\* --format=yaml; in detached mode --cert=<certificate> follows and no
\* --context, --controller-namespace or --controller-name is in it; in
\* connected mode these three follow and no --cert is in it; the verb's
\* own arguments come after this base.
C24_BaseCommand ==
  \A k \in 1..Len(runs) :
    IsBuiltRun(runs[k]) =>
      LET cmd == runs[k].argv
          base == IF ks.detached_mode THEN 3 ELSE 5
      IN /\ Len(cmd) >= base
         /\ cmd[1] = Word(ks.binary)
         /\ cmd[2] = Word("--format=yaml")
         /\ IF ks.detached_mode
            THEN /\ cmd[3] = Arg("--cert=", ks.certificate)
                 /\ Flags(cmd) \cap ClusterFlags = {}
            ELSE /\ cmd[3] = Arg("--context=", ks.current_context_name)
                 /\ cmd[4] = Arg("--controller-namespace=", ks.controller_namespace)
                 /\ cmd[5] = Arg("--controller-name=", ks.controller_name)
                 /\ Flags(cmd) \cap CertFlags = {}
         /\ \A i \in 1..Len(cmd) : cmd[i][1] \in VerbWords => i > base

C24_Witness ==
  \E k \in 1..Len(runs) :
    /\ IsBuiltRun(runs[k])
    /\ ks.detached_mode
    /\ Word("--merge-into") \in {runs[k].argv[i] : i \in 1..Len(runs[k].argv)}

C24_WitnessConnected ==
  \E k \in 1..Len(runs) :
    /\ IsReencryptRun(runs[k])
    /\ ~ks.detached_mode

\* ------------------------------------------------------------------------
\* The merger in the batch re-encryptor
\* ------------------------------------------------------------------------
\* The file holds one re-encrypted document whose sync-options annotation
\* starts with SkipDryRunOnMissingResource=true
Annotated(file) ==
  /\ Reencrypted(file)
  /\ file.docs[1].ann = "map"
  /\ file.docs[1].hasSync
  /\ StartsWith(file.docs[1].sync, skip_option_value)

C25_Step ==
  /\ pc = "annotate" =>
       /\ runs # <<>>
       /\ runs[Len(runs)].stdin = P(cur)
       /\ runs[Len(runs)].rc = 0
       /\ NoArtifacts(cur)
       /\ Reencrypted(fs[P(cur)])
       /\ Annotated(fs'[P(cur)])
  /\ \A f \in Files :
       (~Annotated(fs[P(f)]) /\ Annotated(fs'[P(f)])) => (pc = "annotate" /\ f = cur)
  /\ (pc' = "done" /\ \A k \in 1..Len(runs') : runs'[k].rc = 0) =>
       /\ outcome' = "ok"
       /\ \A i \in 1..Len(secrets') : Annotated(fs'[P(secrets'[i])])

\* C25: after a batch in which every command succeeded, every discovered
\* file holds its re-encrypted content with a sync-options annotation that
\* starts with SkipDryRunOnMissingResource=true; the merger runs on F only
\* after F_new has replaced F and F_backup has been deleted.
C25_MergerAfterReencrypt == [][C25_Step]_vars

C25_Witness ==
  /\ pc = "done"
  /\ outcome = "ok"
  /\ Len(secrets) >= 2
  /\ \A i \in 1..Len(secrets) : Annotated(fs[P(secrets[i])])
  /\ \E i \in 1..Len(secrets) :
       /\ fs0[P(secrets[i])].docs[1].hasSync
       /\ Len(fs[P(secrets[i])].docs[1].sync) > Len(skip_option_value)

\* ------------------------------------------------------------------------
\* What the merger leaves alone
\* ------------------------------------------------------------------------
\* Documents d and e agree on everything but the sync-options annotation
SameButSync(d, e) ==
  /\ e.type = d.type
  /\ e.kind = d.kind
  /\ e.hasMeta = d.hasMeta
  /\ e.name = d.name
  /\ e.ns = d.ns
  /\ e.extra = d.extra
  /\ e.gen = d.gen

C26_Step ==
  LET before == parse_secret_file(fs[P(1)])
      after == parse_secret_file(fs'[P(1)])
  IN /\ \A p \in Paths \ {P(1)} : fs'[p] = fs[p]
     /\ before.st = "none" => fs' = fs
     /\ (before.st = "doc" /\ before.doc.hasMeta) =>
          /\ after.st = "doc"
          /\ SameButSync(before.doc, after.doc)
     /\ fs' # fs => (before.st = "doc" /\ before.doc.hasMeta /\ after.doc.hasSync)

C26_WitnessEmpty ==
  /\ Len(seen) >= 1
  /\ fs0[P(1)] = EmptyFile
  /\ fs = fs0

\* ------------------------------------------------------------------------
\* edit_secret
\* ------------------------------------------------------------------------
IsMergeRun(r) == Word("--merge-into") \in {r.argv[i] : i \in 1..Len(r.argv)}
EditSelected == ks # NoInstance /\ next_operation(args) = "edit"

C27_Step ==
  /\ pc = "edit" =>
       LET r == parse_secret_file(fs[P(1)]) IN
       IF r.st \in {"error", "none"}
       THEN /\ pc' = "done"
            /\ outcome' = "ClickException"
            /\ runs' = runs
       ELSE /\ pc' = "generic"
            /\ cont' = "merge"
            /\ params'.name = r.doc.name
            /\ params'.namespace = r.doc.ns
  /\ (EditSelected /\ Len(runs') > Len(runs)) =>
       LET r == runs'[Len(runs')] IN
         \/ /\ IsCreateRun(r)
            /\ runs = <<>>
            /\ r.argv[4] = Word("generic")
            /\ r.argv[5] = Word(params.name)
            /\ r.argv[7] = Word(params.namespace)
         \/ /\ IsMergeRun(r)
            /\ Len(runs) = 1
            /\ IsCreateRun(runs[1])
            /\ runs[1].rc = 0
            /\ r.argv[Len(r.argv)] = Word(args.edit)

\* C27: edit_secret ends with ClickException, having called neither
\* create_generic_secret nor merge, when the file cannot be parsed or is
\* empty; otherwise it calls create_generic_secret once with the name and
\* namespace of the document's metadata and then, once that has returned,
\* merge once on the same file.
C27_EditSecret == [][C27_Step]_vars

\* ------------------------------------------------------------------------
\* The controller's newest certificate (cluster.py)
\* ------------------------------------------------------------------------
TYPE_TLS == "kubernetes.io/tls"
\* One item of list_namespaced_secret: metadata.name (in parts),
\* type and metadata.creation_timestamp
SecretItem(name, type, timestamp) == [name |-> name, type |-> type, timestamp |-> timestamp]
Timestamps == 1..3
SecretItemPool ==
  {SecretItem(n, t, ts) :
     n \in {<<"sealed-secrets", "-", "key1">>, <<"sealed-secrets", "-", "key2">>,
            <<"sealed", "_", "secrets">>, <<"other">>},
     t \in {TYPE_TLS, "Opaque"},
     ts \in Timestamps}

\* The lists the API can return: no two secrets with the same name
SecretItemLists ==
  UNION {{l \in [1..n -> SecretItemPool] : \A i, j \in 1..n : l[i].name = l[j].name => i = j} :
           n \in 0..MaxSecrets}

tls_secrets_anytype(items) ==
  SelectSeq(items, LAMBDA secret : Contains(secret.name, "sealed-secrets"))

\* the secrets kept by the loop over res.items
tls_secrets(items) ==
  SelectSeq(items, LAMBDA secret :
              Contains(secret.name, "sealed-secrets") /\ secret.type = TYPE_TLS)

\* list.sort(key=timestamp) is stable: x goes after every element whose
\* timestamp is not greater
RECURSIVE InsertByTimestamp(_, _)
InsertByTimestamp(sorted, x) ==
  IF sorted = <<>> THEN <<x>>
  ELSE IF sorted[Len(sorted)].timestamp <= x.timestamp THEN Append(sorted, x)
  ELSE Append(InsertByTimestamp(SubSeq(sorted, 1, Len(sorted) - 1), x), sorted[Len(sorted)])

RECURSIVE SortByTimestamp(_)
SortByTimestamp(l) ==
  IF l = <<>> THEN <<>>
  ELSE InsertByTimestamp(SortByTimestamp(SubSeq(l, 1, Len(l) - 1)), l[Len(l)])

InitCertificate ==
  /\ fs = NoTree
  /\ fs0 = fs
  /\ pc = "certificate"
  /\ outcome = "running"
  /\ seen = <<>>
  /\ parsed = Unset
  /\ ks = Connected("/cache/kubeseal-0.26.0")
  /\ binOk = TRUE
  /\ secrets = <<>>
  /\ idx = 0
  /\ runs = <<>>
  /\ CliIdle
  /\ env \in {[NoEnv EXCEPT !.secret_items = l] : l \in SecretItemLists}
  /\ cluster = [context |-> "ctx", cpu_type |-> "amd64", system |-> "linux",
                controller |-> [name |-> <<"sealed-secrets">>,
                                namespace |-> "kube-system", version |-> <<>>]]
  /\ cache = {}
  /\ archive = "absent"
  /\ gets = <<>>
  /\ msgs = <<>>
  /\ norm = NoCall

\* Cluster.find_latest_sealed_secrets_controller_certificate()
FindLatestCertificate ==
  /\ pc = "certificate"
  /\ pc' = "done"
  /\ LET found == tls_secrets(env.secret_items) IN
       IF found = <<>>
       THEN /\ outcome' = "ControllerNotFoundError"
            /\ norm' = [arg |-> <<>>, st |-> "ControllerNotFoundError", val |-> <<>>]
       ELSE LET sorted == SortByTimestamp(found) IN
            /\ outcome' = "ok"
            /\ norm' = [arg |-> <<>>, st |-> "ok", val |-> sorted[Len(sorted)].name]
  /\ UNCHANGED <<fs, fs0, docVars, ks, binOk, batchVars, runs, cliVars,
                 env, cluster, cache, archive, gets, msgs>>

NextCertificate == FindLatestCertificate

SpecCertificate == InitCertificate /\ [][NextCertificate]_vars

\* The secrets of the namespace whose name contains sealed-secrets and
\* whose type is kubernetes.io/tls
Qualifying ==
  {i \in 1..Len(env.secret_items) :
     /\ \E k \in 1..Len(env.secret_items[i].name) : env.secret_items[i].name[k] = "sealed-secrets"
     /\ env.secret_items[i].type = "kubernetes.io/tls"}

\* C28: the lookup returns the name of a secret with the greatest creation
\* timestamp among those whose name contains sealed-secrets and whose type
\* is kubernetes.io/tls, never the name of another secret, and raises
\* ControllerNotFoundError when there is none.
C28_LatestCertificate ==
  pc = "done" =>
    IF Qualifying = {}
    THEN outcome = "ControllerNotFoundError"
    ELSE /\ outcome = "ok"
         /\ \E i \in Qualifying :
              /\ norm.val = env.secret_items[i].name
              /\ \A j \in Qualifying :
                   env.secret_items[j].timestamp <= env.secret_items[i].timestamp

C28_Witness ==
  /\ pc = "done"
  /\ outcome = "ok"
  /\ Cardinality(Qualifying) >= 2
  /\ \E i, j \in Qualifying :
       /\ i < j
       /\ env.secret_items[i].timestamp > env.secret_items[j].timestamp
       /\ norm.val = env.secret_items[i].name
  /\ \E k \in 1..Len(env.secret_items) :
       /\ k \notin Qualifying
       /\ \A i \in Qualifying : env.secret_items[k].timestamp > env.secret_items[i].timestamp

C28_WitnessNone ==
  /\ pc = "done"
  /\ outcome = "ControllerNotFoundError"
  /\ env.secret_items # <<>>

\* ------------------------------------------------------------------------
\* The batch re-encryptor leaves no transient file behind
\* ------------------------------------------------------------------------
\* C29: whenever reencrypt_secrets has ended (normal return, non-zero exit
\* of the command, kubeseal not found or not executable, failure of the
\* annotation step), no <file>_backup and no <file>_new exists for any
\* discovered SealedSecret file.
C29_NoArtifactsAtEnd ==
  pc = "done" =>
    \A k \in 1..Len(secrets) :
      ~Exists(fs[backup_path(secrets[k])]) /\ ~Exists(fs[output_tmp(secrets[k])])

\* The same for every way of ending but the command that could not be started
C29_NoArtifactsUnlessNotStarted ==
  (pc = "done" /\ outcome # "FileNotFoundError") =>
    \A k \in 1..Len(secrets) :
      ~Exists(fs[backup_path(secrets[k])]) /\ ~Exists(fs[output_tmp(secrets[k])])

\* ------------------------------------------------------------------------
\* One operation for each command line
\* ------------------------------------------------------------------------
Given(v) == v # NoVal
NoneOfTheFour ==
  ~args.fetch /\ ~args.backup /\ ~Given(args.re_encrypt) /\ ~Given(args.edit)
IsSealRun(r) ==
  r.argv[1] # Word("kubectl") /\ ~IsFetchRun(r) /\ ~IsReencryptRun(r) /\ ~IsMergeRun(r)
CreatorSteps == {"generic", "tls", "regcred"}

C30_Step ==
  \* the operation is chosen once, by precedence
  /\ pc = "dispatch" =>
       /\ args.fetch => pc' = "fetch"
       /\ (~args.fetch /\ args.backup) => pc' = "backup"
       /\ (~args.fetch /\ ~args.backup /\ Given(args.re_encrypt)) => pc' = "start"
       /\ (~args.fetch /\ ~args.backup /\ ~Given(args.re_encrypt) /\ Given(args.edit)) =>
            pc' = "edit"
       /\ NoneOfTheFour <=> pc' = "create"
  /\ (pc' \in {"fetch", "backup", "start", "edit", "create"} /\ pc' # pc) =>
       (pc = "dispatch" /\ ~args.version /\ runs = <<>>)
  \* every command run belongs to the chosen operation
  /\ (ks # NoInstance /\ Len(runs') > Len(runs)) =>
       LET r == runs'[Len(runs')] IN
         /\ IsFetchRun(r) => args.fetch
         /\ IsBackupRun(r) => (~args.fetch /\ args.backup)
         /\ IsReencryptRun(r) => (~args.fetch /\ ~args.backup /\ Given(args.re_encrypt))
         /\ IsMergeRun(r) =>
              (~args.fetch /\ ~args.backup /\ ~Given(args.re_encrypt) /\ Given(args.edit))
         /\ IsCreateRun(r) => (~args.fetch /\ ~args.backup /\ ~Given(args.re_encrypt))
         /\ IsSealRun(r) => NoneOfTheFour
  \* create-new-secret: the creator of the chosen type, then seal
  /\ (ks # NoInstance /\ NoneOfTheFour) =>
       /\ pc = "create" =>
            /\ params'.secret_type \in SecretTypes
            /\ pc' \in CreatorSteps
       /\ Len(runs') > Len(runs) =>
            LET r == runs'[Len(runs')] IN
              \/ /\ IsCreateRun(r)
                 /\ runs = <<>>
                 /\ r.argv[4] = Word(params.secret_type)
                 /\ r.argv[5] = Word(params.name)
                 /\ r.rc = 0 => pc' = "seal"
                 /\ r.rc # 0 => pc' = "done"
              \/ /\ IsSealRun(r)
                 /\ Len(runs) = 1
                 /\ IsCreateRun(runs[1])
                 /\ runs[1].rc = 0
                 /\ pc' = "done"
       /\ pc = "seal" => Len(runs') = 2
       /\ (pc \in CreatorSteps /\ pc' = "seal") => Len(runs') = 1

C30_WitnessPrecedence ==
  /\ pc = "exit"
  /\ args.fetch /\ args.backup /\ Given(args.re_encrypt) /\ Given(args.edit)
  /\ Len(runs) = 1
  /\ IsFetchRun(runs[1])

====
